---------------------------- MODULE Spec2Model ----------------------------
(***************************************************************************)
(* GlucoVision glucose analytics engine.                                   *)
(*                                                                         *)
(* Model of GlucoseAIService.analyze_glucose_patterns                      *)
(* (backend/app/services/ai_service.py) and of the risk scoring of the     *)
(* /risk-assessment endpoint (backend/app/api/v1/ai_insights.py).          *)
(*                                                                         *)
(* Numbers.  Glucose values are integers (mg/dL).  A float of the program  *)
(* is a record: kind "num" is the exact rational n/d, kind "sqrt" is the   *)
(* exact real c * sqrt(n/d) (standard deviations), kind "nan" is NaN.      *)
(* Arithmetic is exact; rounding is Python's round (half to even).         *)
(* Time.  A reading_time is a number of hours since a Monday 00:00.        *)
(***************************************************************************)
EXTENDS Integers, Sequences, FiniteSets, TLC

VARIABLES
    logs,               \* argument: the list of glucose logs
    user,               \* argument: the user (target range)
    pc,                 \* position inside analyze_glucose_patterns / endpoint
    calls,              \* the service methods called so far, in call order
    df,                 \* local: the DataFrame (sequence of rows)
    overview_stats,     \* local: result of _calculate_overview_stats
    trends,             \* local: result of _analyze_trends
    patterns,           \* local: result of _identify_patterns
    recommendations,    \* local: result of _generate_recommendations
    risk_assessment,    \* local: result of _assess_risk_factors
    time_analysis,      \* local: result of _analyze_time_patterns
    meal_correlation,   \* local: result of _analyze_meal_correlation
    anomaly_detection,  \* local: result of _detect_anomalies
    analysis,           \* the dict returned by analyze_glucose_patterns
    sklearn,            \* the behaviour of the seeded library calls on this input
    risk_response,      \* the "data" dict returned by get_risk_assessment
    scaler,             \* self.scaler of the shared instance: the fitted state
    history,            \* the earlier calls on the instance: arguments and result
    tasks,              \* the invocations running concurrently on the instance
    recommendations_response  \* the "data" dict of get_personalized_recommendations

vars == <<logs, user, pc, calls, df, overview_stats, trends, patterns,
          recommendations, risk_assessment, time_analysis, meal_correlation,
          anomaly_detection, analysis, sklearn, risk_response,
          scaler, history, tasks, recommendations_response>>

\* what a single call of analyze_glucose_patterns never touches
outside == <<history, tasks, recommendations_response>>

locals == <<df, overview_stats, trends, patterns, recommendations,
            risk_assessment, time_analysis, meal_correlation,
            anomaly_detection>>

-----------------------------------------------------------------------------
(* Bounds of the model *)

\* longest list of logs drawn from the reading templates
MaxLogs == 6

\* longest series of the families of 10 or more readings
MaxSeries == 10

-----------------------------------------------------------------------------
(* Exact arithmetic *)

Abs(x) == IF x < 0 THEN -x ELSE x

Pow10(k) == IF k = 0 THEN 1 ELSE IF k = 1 THEN 10 ELSE IF k = 2 THEN 100 ELSE 1000

\* round n/d (d > 0) to the nearest integer, ties to the even one
RoundHalfEven(n, d) ==
    LET q == n \div d
        r == n - q * d
    IN  IF 2 * r < d THEN q
        ELSE IF 2 * r > d THEN q + 1
        ELSE IF q % 2 = 0 THEN q ELSE q + 1

RECURSIVE IsqrtIter(_, _, _)
IsqrtIter(x, lo, hi) ==
    IF lo >= hi THEN lo
    ELSE LET mid == (lo + hi + 1) \div 2
         IN  IF mid * mid <= x THEN IsqrtIter(x, mid, hi)
             ELSE IsqrtIter(x, lo, mid - 1)

\* floor of the square root of x >= 0
Isqrt(x) == IsqrtIter(x, 0, IF x < 46340 THEN x ELSE 46340)

\* <<q, m>> with a * r = q * c + m and 0 <= m < c, for 0 <= r < c, without
\* forming the product a * r
RECURSIVE MulDivQR(_, _, _)
MulDivQR(a, r, c) ==
    IF a = 0 THEN <<0, 0>>
    ELSE LET h == MulDivQR(a \div 2, r, c)
             x == 2 * h[2] + (a % 2) * r
         IN  <<2 * h[1] + (x \div c), x % c>>

\* floor(a * b / c) for a, b >= 0 and c > 0
MulDiv(a, b, c) == a * (b \div c) + MulDivQR(a, b % c, c)[1]

\* the rational n/d
Rat(n, d) == [kind |-> "num", n |-> n, d |-> d, c |-> 0, an |-> 0, ad |-> 1]
\* c * sqrt(n/d), c > 0
Surd(c, n, d) == [kind |-> "sqrt", n |-> n, d |-> d, c |-> c, an |-> 0, ad |-> 1]
\* an/ad + c * sqrt(n/d), c # 0
Aff(an, ad, c, n, d) == [kind |-> "aff", n |-> n, d |-> d, c |-> c, an |-> an, ad |-> ad]
NaN == [kind |-> "nan", n |-> 0, d |-> 1, c |-> 0, an |-> 0, ad |-> 1]
\* Python's None in a place that otherwise holds a float
None == [kind |-> "none", n |-> 0, d |-> 1, c |-> 0, an |-> 0, ad |-> 1]

IsNaN(f) == f.kind = "nan"

\* f = n/d as real numbers
RatEq(f, n, d) == f.kind = "num" /\ f.n * d = n * f.d

\* f > n/d as real numbers, for a rational f (d > 0)
RatGt(f, n, d) == f.kind = "num" /\ f.n * d > n * f.d

\* f < n/d as real numbers, for a rational f (d > 0)
RatLt(f, n, d) == f.kind = "num" /\ f.n * d < n * f.d

\* the sign (-1, 0, 1) of a/b - c/d for a, c >= 0 and b, d > 0, by continued
\* fractions (no product is formed)
RECURSIVE CmpFrac(_, _, _, _)
CmpFrac(a, b, c, d) ==
    LET q1 == a \div b
        q2 == c \div d
        r1 == a % b
        r2 == c % d
    IN  IF q1 > q2 THEN 1
        ELSE IF q1 < q2 THEN -1
        ELSE IF r1 = 0 /\ r2 = 0 THEN 0
        ELSE IF r1 = 0 THEN -1
        ELSE IF r2 = 0 THEN 1
        ELSE 0 - CmpFrac(b, r1, d, r2)

\* f > t for a float f = c * sqrt(n/d) and an integer t >= 0
SurdGt(f, t) == CmpFrac(f.n, f.d, t * t, f.c * f.c) > 0

\* the sign of |c| * sqrt(n/d) - rn/rd (rd > 0)
SurdCmp(c, n, d, rn, rd) ==
    IF rn < 0 THEN 1
    ELSE IF rn = 0 THEN (IF n = 0 THEN 0 ELSE 1)
    ELSE IF n = 0 THEN -1
    ELSE CmpFrac(n * rd * Abs(c), d * rn, rn, rd * Abs(c))

\* the sign of f - p/q for f = an/ad + c * sqrt(n/d) (q > 0)
AffCmp(f, p, q) ==
    LET rn == p * f.ad - f.an * q
        rd == q * f.ad
    IN  IF f.c > 0 THEN SurdCmp(f.c, f.n, f.d, rn, rd)
        ELSE 0 - SurdCmp(f.c, f.n, f.d, 0 - rn, rd)

\* largest t in lo..hi with f >= (2t - 1) / (2 * scale)
RECURSIVE AffSearch(_, _, _, _)
AffSearch(f, scale, lo, hi) ==
    IF lo >= hi THEN lo
    ELSE LET mid == (lo + hi + 1) \div 2
         IN  IF AffCmp(f, 2 * mid - 1, 2 * scale) >= 0
             THEN AffSearch(f, scale, mid, hi)
             ELSE AffSearch(f, scale, lo, mid - 1)

\* a - b for rationals a, b
RatSub(a, b) == Rat(a.n * b.d - b.n * a.d, a.d * b.d)

\* round(f, decimals) for a float f that is not NaN
Round(f, decimals) ==
    IF f.kind = "num"
    THEN Rat(RoundHalfEven(f.n * Pow10(decimals), f.d), Pow10(decimals))
    ELSE IF f.kind = "sqrt"
    THEN \* c * sqrt(n/d): t with (2t-1)^2 <= 4 (10^k c)^2 n/d < (2t+1)^2
         LET k == Pow10(decimals) * f.c
             w == MulDiv(4 * k * k, f.n, f.d)
         IN  Rat((Isqrt(w) + 1) \div 2, Pow10(decimals))
    ELSE LET t == AffSearch(f, Pow10(decimals), -20000, 20000)
         IN  IF t % 2 = 1 /\ AffCmp(f, 2 * t - 1, 2 * Pow10(decimals)) = 0
             THEN Rat(t - 1, Pow10(decimals)) ELSE Rat(t, Pow10(decimals))

-----------------------------------------------------------------------------
(* GlucoseAIService._safe_float / _safe_round *)

\* fault: the value is passed on unguarded
_safe_float_unguarded(value, default) == value

_safe_float(value, default) == IF IsNaN(value) THEN default ELSE value

_safe_round(value, decimals, default) ==
    LET safe_val == _safe_float(value, default)
    IN  IF IsNaN(safe_val) THEN safe_val ELSE Round(safe_val, decimals)

Zero == Rat(0, 1)

-----------------------------------------------------------------------------
(* pandas Series operations on a sequence of integers *)

RECURSIVE SeqSum(_)
SeqSum(s) == IF s = <<>> THEN 0 ELSE Head(s) + SeqSum(Tail(s))

SumSq(s) == SeqSum([i \in 1..Len(s) |-> s[i] * s[i]])

\* n * sum(x^2) - sum(x)^2 = n (n-1) * (sample variance)
VarNum(s) == Len(s) * SumSq(s) - SeqSum(s) * SeqSum(s)

\* Series.mean(): NaN for an empty series
Mean(s) == IF Len(s) = 0 THEN NaN ELSE Rat(SeqSum(s), Len(s))

\* fault: the standard error of the mean takes the place of the deviation
StdError(s) == IF Len(s) < 2 THEN NaN ELSE Surd(1, VarNum(s), Len(s) * Len(s) * (Len(s) - 1))

\* Series.std(): sample standard deviation (ddof = 1), NaN below 2 values
Std(s) == IF Len(s) < 2 THEN NaN ELSE Surd(1, VarNum(s), Len(s) * (Len(s) - 1))

SeqMin(s) == CHOOSE x \in {s[i] : i \in 1..Len(s)} : \A j \in 1..Len(s) : x <= s[j]
SeqMax(s) == CHOOSE x \in {s[i] : i \in 1..Len(s)} : \A j \in 1..Len(s) : x >= s[j]

\* number of True entries of a boolean mask
Count(mask) == Cardinality({i \in 1..Len(mask) : mask[i]})

-----------------------------------------------------------------------------
(* Inputs *)

NoMeal == "None"

Log(v, t, rt, mt) ==
    [glucose_value |-> v, reading_time |-> t, reading_type |-> rt, meal_type |-> mt]

\* Monday 07:00, Monday 23:00, Saturday 07:00
LogTemplates ==
    { Log(100,   7, "fasting",    NoMeal),
      Log( 40,  23, "bedtime",    "dinner"),
      Log(310, 127, "after_meal", "breakfast") }

TemplateLogs == UNION {[1..k -> LogTemplates] : k \in 0..MaxLogs}

\* four readings with one and the same reading_time
TieLogs == [1..4 -> {Log(100, 7, "fasting", NoMeal), Log(95, 7, "random", NoMeal)}]

\* a series of readings taken daily at 08:00, in the given order
Daily(values) == [i \in 1..Len(values) |-> Log(values[i], 24 * (i - 1) + 8, "random", NoMeal)]

\* 90, 95, 100, 105 evenly spaced
Scenario1Logs == Daily(<<90, 95, 100, 105>>)

\* 120 lies exactly two standard deviations (10) above the mean (100)
BoundaryLogs == Daily(<<95, 120, 95, 100, 95, 95>>)

\* one reading of 400 mg/dL (first, middle or last) in a series of 10 or more
\* whose other readings are 80 mg/dL up to some day and 120 mg/dL after it
SpikeLogs ==
    UNION { { Daily([i \in 1..k |-> IF i = p THEN 400 ELSE IF i <= j THEN 80 ELSE 120]) :
                p \in {1, k \div 2, k}, j \in 0..k } : k \in 10..MaxSeries }

\* 10 or more identical readings
ConstantLogs == { [i \in 1..k |-> Log(100, 7, "fasting", NoMeal)] : k \in 10..MaxSeries }

InputLogs ==
    TemplateLogs \cup TieLogs \cup {Scenario1Logs, BoundaryLogs} \cup SpikeLogs \cup ConstantLogs

\* target ranges a user profile can hold (schemas/user.py: 50..200, 100..400,
\* min < max)
Users == { [target_range_min |-> 80, target_range_max |-> 180],
           [target_range_min |-> 100, target_range_max |-> 300] }

-----------------------------------------------------------------------------
(* GlucoseAIService.__init__ *)

\* fault: the gate admits three readings
min_logs_lowered == 4 - 1

min_logs_for_analysis == 4

-----------------------------------------------------------------------------
(* _insufficient_data_response / _error_response *)

CollectMoreData ==
    [type |-> "data_collection", priority |-> "high", title |-> "More Data Needed",
     action |-> "log_more_readings"]

_insufficient_data_response ==
    [status |-> "insufficient_data",
     overview |-> [total_readings |-> 0, average_glucose |-> Zero, time_in_range |-> Zero],
     trends |-> [trend |-> "insufficient_data"],
     patterns |-> <<>>,
     recommendations |-> <<CollectMoreData>>]

\* fault: a failed analysis answers like a short input
_error_response_unmarked == _insufficient_data_response

_error_response ==
    [status |-> "error",
     overview |-> [total_readings |-> 0, average_glucose |-> Zero, time_in_range |-> Zero],
     trends |-> [trend |-> "error"],
     patterns |-> <<>>,
     recommendations |-> <<>>]

-----------------------------------------------------------------------------
(* _logs_to_dataframe *)

Row(log) ==
    [glucose_value |-> log.glucose_value,
     reading_time  |-> log.reading_time,
     reading_type  |-> log.reading_type,
     meal_type     |-> log.meal_type,
     hour          |-> log.reading_time % 24,
     day_of_week   |-> (log.reading_time \div 24) % 7,
     is_weekend    |-> ((log.reading_time \div 24) % 7) >= 5]

RemoveAt(s, i) == [j \in 1..(Len(s) - 1) |-> IF j < i THEN s[j] ELSE s[j + 1]]

\* fault: the rows stay in the order of the frame
sort_values_as_given(rows) == {rows}

\* DataFrame.sort_values('reading_time') with the default, unstable sort:
\* every arrangement of the rows in non-decreasing reading_time (equal rows
\* are interchangeable: one of them is taken as the next row)
RECURSIVE sort_values(_)
sort_values(rows) ==
    IF rows = <<>> THEN {<<>>}
    ELSE LET firsts == {i \in 1..Len(rows) :
                          /\ \A j \in 1..Len(rows) : rows[i].reading_time <= rows[j].reading_time
                          /\ \A j \in 1..(i - 1) : rows[j] # rows[i]}
         IN  UNION { { <<rows[i]>> \o rest : rest \in sort_values(RemoveAt(rows, i)) } :
                     i \in firsts }

\* fault: the loop takes the readings out of the list
logs_consumed(ls) == <<>>

\* the list of logs after the loop of lines 265-276: the loop reads the
\* attributes of each log into a new dict and assigns nothing
logs_after_loop(ls) == ls

\* fault: the frame keeps the order of the list
_logs_to_dataframe_unsorted(ls) == {[i \in 1..Len(ls) |-> Row(ls[i])]}

_logs_to_dataframe(ls) == sort_values([i \in 1..Len(ls) |-> Row(ls[i])])

Column(rows, name) == [i \in 1..Len(rows) |-> rows[i][name]]

-----------------------------------------------------------------------------
(* _calculate_overview_stats *)

\* Python's "x or default" on an integer
OrDefault(x, default) == IF x = 0 THEN default ELSE x

\* fault: the ratio is not scaled to percent
CvOfFraction(std, avg) ==
    IF std.d % avg.d = 0
    THEN Surd(std.c, std.n * avg.d, (std.d \div avg.d) * avg.n * avg.n)
    ELSE Surd(std.c, std.n * avg.d * avg.d, std.d * avg.n * avg.n)

\* (std / avg) * 100 for a standard deviation std and a rational avg > 0; a
\* factor common to the two denominators is cancelled
CvOf(std, avg) ==
    IF std.d % avg.d = 0
    THEN Surd(100 * std.c, std.n * avg.d, (std.d \div avg.d) * avg.n * avg.n)
    ELSE Surd(100 * std.c, std.n * avg.d * avg.d, std.d * avg.n * avg.n)

\* cv as computed with NaN protection by _calculate_overview_stats and
\* _generate_recommendations
GuardedCv(avg, std) ==
    IF RatGt(avg, 0, 1) /\ ~IsNaN(std) /\ ~IsNaN(avg) THEN CvOf(std, avg) ELSE Zero

\* the user after lines 294-295: "user.target_range_min or 80" binds locals
user_after_overview(u) == u

\* the three classes of a reading against the target range
InRange(v, target_min, target_max) == v >= target_min /\ v <= target_max
\* fault: the lower bound counts as below range
BelowRangeInclusive(v, target_min) == v <= target_min
BelowRange(v, target_min) == v < target_min
AboveRange(v, target_max) == v > target_max

\* (in_range / len(glucose_values)) * 100
\* fault: the fraction is not scaled to percent
TimeInRangeFraction(in_range, total) == Rat(in_range, total)

TimeInRange(in_range, total) == Rat(in_range * 100, total)

_calculate_overview_stats(rows, u) ==
    LET glucose_values == Column(rows, "glucose_value")
        avg_glucose == Mean(glucose_values)
        min_glucose == SeqMin(glucose_values)
        max_glucose == SeqMax(glucose_values)
        std_glucose == Std(glucose_values)
        target_min  == OrDefault(u.target_range_min, 80)
        target_max  == OrDefault(u.target_range_max, 180)
        in_range    == Count([i \in 1..Len(glucose_values) |-> LET v == glucose_values[i] IN InRange(v, target_min, target_max)])
        below_range == Count([i \in 1..Len(glucose_values) |-> LET v == glucose_values[i] IN BelowRange(v, target_min)])
        above_range == Count([i \in 1..Len(glucose_values) |-> LET v == glucose_values[i] IN AboveRange(v, target_max)])
        time_in_range == TimeInRange(in_range, Len(glucose_values))
        cv == GuardedCv(avg_glucose, std_glucose)
    IN  [total_readings        |-> Len(rows),
         average_glucose       |-> _safe_round(avg_glucose, 1, Zero),
         min_glucose           |-> _safe_float(Rat(min_glucose, 1), Zero),
         max_glucose           |-> _safe_float(Rat(max_glucose, 1), Zero),
         glucose_variability   |-> _safe_round(std_glucose, 1, Zero),
         coefficient_variation |-> _safe_round(cv, 1, Zero),
         time_in_range         |-> _safe_round(time_in_range, 1, Zero),
         readings_in_range     |-> in_range,
         readings_below_range  |-> below_range,
         readings_above_range  |-> above_range]

-----------------------------------------------------------------------------
(* _analyze_trends: sklearn LinearRegression of glucose value on 0..n-1 *)

\* sum of x * y over the points (0, y[1]), (1, y[2]), ...
SumXY(y) == SeqSum([i \in 1..Len(y) |-> (i - 1) * y[i]])

SumX(n) == (n * (n - 1)) \div 2
SumXX(n) == ((n - 1) * n * (2 * n - 1)) \div 6

\* the fitted coefficient is SlopeNum / SlopeDen
SlopeNum(y) == Len(y) * SumXY(y) - SumX(Len(y)) * SeqSum(y)
SlopeDen(n) == n * SumXX(n) - SumX(n) * SumX(n)

coef_(y) == Rat(SlopeNum(y), SlopeDen(Len(y)))

\* model.predict at index x: mean(y) + slope * (x - mean(x))
predict(y, x) ==
    LET n == Len(y)
    IN  Rat(2 * SlopeDen(n) * SeqSum(y) + n * SlopeNum(y) * (2 * x - n + 1),
            2 * n * SlopeDen(n))

\* model.score = R^2 = SlopeNum^2 / (SlopeDen * VarNum) when the values are
\* not all equal.  For a constant series r2_score has a zero denominator and
\* returns 1.0 for an exact fit and 0.0 otherwise: both are outcomes.
ScoreOutcomes(y) == IF VarNum(y) = 0 THEN {0, 1} ELSE {1}

\* sign of score - a/b (a, b > 0); const is the outcome for a constant series
ScoreCmp(y, const, a, b) ==
    IF VarNum(y) = 0 THEN CmpFrac(const, 1, a, b)
    ELSE IF SlopeNum(y) = 0 THEN -1
    ELSE CmpFrac(Abs(SlopeNum(y)), VarNum(y), a * SlopeDen(Len(y)), b * Abs(SlopeNum(y)))

\* largest t in lo..hi with score >= (2t - 1) / 2000
RECURSIVE ScoreSearch(_, _, _, _)
ScoreSearch(y, const, lo, hi) ==
    IF lo >= hi THEN lo
    ELSE LET mid == (lo + hi + 1) \div 2
         IN  IF ScoreCmp(y, const, 2 * mid - 1, 2000) >= 0
             THEN ScoreSearch(y, const, mid, hi)
             ELSE ScoreSearch(y, const, lo, mid - 1)

\* round(score, 3)
ScoreRound3(y, const) ==
    LET t == ScoreSearch(y, const, 0, 1000)
    IN  IF t > 0 /\ t % 2 = 1 /\ ScoreCmp(y, const, 2 * t - 1, 2000) = 0
        THEN Rat(t - 1, 1000) ELSE Rat(t, 1000)

\* fault: the middle label is never given
ScoreLabelTwoWay(y, const, top, mid, low) ==
    IF ScoreCmp(y, const, 7, 10) > 0 THEN top ELSE low

\* the three-way label of a score against the thresholds 0.7 and 0.4
ScoreLabel(y, const, top, mid, low) ==
    IF ScoreCmp(y, const, 7, 10) > 0 THEN top
    ELSE IF ScoreCmp(y, const, 4, 10) > 0 THEN mid
    ELSE low

SubSeqFrom(s, a, b) == [i \in 1..(b - a + 1) |-> s[a + i - 1]]

_generate_glucose_predictions(y, const) ==
    LET last_index == Len(y) - 1
        predictions == [i \in 1..3 |-> predict(y, last_index + i)]
    IN  [next_reading_prediction |-> _safe_round(predictions[1], 1, Zero),
         short_term_predictions  |-> [i \in 1..3 |-> _safe_round(predictions[i], 1, Zero)],
         confidence_score        |-> ScoreRound3(y, const),
         prediction_reliability  |-> ScoreLabel(y, const, "high", "moderate", "low")]

\* fault: the recent readings are the last eight
recent_days_eight == 7 + 1

recent_days == 7

\* fault: a slope of exactly 0.5 or -0.5 is taken as stable
TrendLabelInclusive(slope) ==
    IF ~RatGt(slope, 1, 2) /\ ~RatLt(slope, -1, 2) THEN "stable"
    ELSE IF RatGt(slope, 0, 1) THEN "increasing"
    ELSE "decreasing"

\* the trend of a fitted slope
TrendLabel(slope) ==
    IF RatLt(slope, 1, 2) /\ RatGt(slope, -1, 2) THEN "stable"
    ELSE IF RatGt(slope, 0, 1) THEN "increasing"
    ELSE "decreasing"

\* df_sorted is one sort of df; const is the score outcome of a constant series
_analyze_trends(rows, df_sorted, const) ==
    IF Len(rows) < 3
    THEN [trend |-> "insufficient_data", direction |-> "unknown", slope |-> Zero]
    ELSE
    LET y == Column(df_sorted, "glucose_value")
        n == Len(y)
        slope == coef_(y)
        trend == TrendLabel(slope)
        direction == IF trend = "stable" THEN "stable"
                     ELSE IF trend = "increasing" THEN "upward" ELSE "downward"
        recent_change ==
            IF Len(rows) > recent_days
            THEN RatSub(Mean(SubSeqFrom(y, n - recent_days + 1, n)),
                        Mean(SubSeqFrom(y, 1, n - recent_days)))
            ELSE Zero
    IN  [trend          |-> trend,
         direction      |-> direction,
         slope          |-> _safe_round(slope, 3, Zero),
         r_squared      |-> ScoreRound3(y, const),
         recent_change  |-> _safe_round(recent_change, 1, Zero),
         trend_strength |-> ScoreLabel(y, const, "strong", "moderate", "weak"),
         predictions    |-> _generate_glucose_predictions(y, const)]

-----------------------------------------------------------------------------
(* _identify_patterns *)

KeysOf(rows, name) == {rows[i][name] : i \in 1..Len(rows)}

\* df.groupby(name)['glucose_value'].mean() at key k
GroupMean(rows, name, k) ==
    Mean(Column(SelectSeq(rows, LAMBDA r : r[name] = k), "glucose_value"))

\* a < b for two rational means
MeanLess(a, b) == a.n * b.d < b.n * a.d

\* Series.idxmax / idxmin over keys in ascending order: the first extreme key
idxmax(rows, name) ==
    CHOOSE k \in KeysOf(rows, name) :
        \A g \in KeysOf(rows, name) :
            \/ MeanLess(GroupMean(rows, name, g), GroupMean(rows, name, k))
            \/ (~MeanLess(GroupMean(rows, name, k), GroupMean(rows, name, g)) /\ k <= g)

idxmin(rows, name) ==
    CHOOSE k \in KeysOf(rows, name) :
        \A g \in KeysOf(rows, name) :
            \/ MeanLess(GroupMean(rows, name, k), GroupMean(rows, name, g))
            \/ (~MeanLess(GroupMean(rows, name, g), GroupMean(rows, name, k)) /\ k <= g)

\* Series.mode().iloc[0] of an integer column: the smallest most frequent value
ModeInt(s) ==
    LET Freq(v) == Cardinality({i \in 1..Len(s) : s[i] = v})
    IN  CHOOSE v \in {s[i] : i \in 1..Len(s)} :
            \A w \in {s[i] : i \in 1..Len(s)} :
                Freq(v) > Freq(w) \/ (Freq(v) = Freq(w) /\ v <= w)

\* the reading types in alphabetical order (the order of Series.mode())
ReadingTypes ==
    <<"after_meal", "bedtime", "before_meal", "exercise", "fasting", "other",
      "random", "sick", "stress", "unknown">>

TypeRank(t) == CHOOSE i \in 1..Len(ReadingTypes) : ReadingTypes[i] = t

ModeType(s) == ReadingTypes[ModeInt([i \in 1..Len(s) |-> TypeRank(s[i])])]

\* reading_type_map ... .fillna(5)
reading_type_numeric(t) ==
    IF t = "fasting" THEN 1
    ELSE IF t = "before_meal" THEN 2
    ELSE IF t = "after_meal" THEN 3
    ELSE IF t = "bedtime" THEN 4
    ELSE 5

BoolInt(b) == IF b THEN 1 ELSE 0

\* the feature matrix of the clustering
ClusterFeatures(rows) ==
    [i \in 1..Len(rows) |->
        <<rows[i].glucose_value, rows[i].hour, rows[i].day_of_week,
          reading_type_numeric(rows[i].reading_type), BoolInt(rows[i].is_weekend)>>]

\* the feature matrix of the outlier detection
AnomalyFeatures(rows) ==
    [i \in 1..Len(rows) |->
        <<rows[i].glucose_value, rows[i].hour, rows[i].day_of_week,
          reading_type_numeric(rows[i].reading_type)>>]

Min2(a, b) == IF a < b THEN a ELSE b

\* fault: nine readings are enough for the library calls
MinMLLogsLowered == 10 - 1

\* rows of the clustering threshold
MinMLLogs == 10

\* self.scaler = StandardScaler(): not fitted
Unfitted == <<>>

\* number of columns of a feature matrix
Width(features) == IF features = <<>> THEN 0 ELSE Len(features[1])

\* fault: the statistics of earlier batches of the same width are kept
partial_fit(sc, features) ==
    IF sc = Unfitted
    THEN [n_features_in_ |-> Width(features), fitted_on |-> features]
    ELSE IF sc.n_features_in_ # Width(features) THEN sc
    ELSE [n_features_in_ |-> Width(features), fitted_on |-> sc.fitted_on \o features]

\* StandardScaler.fit resets the scaler and learns mean_ and scale_ from the
\* batch alone.  The parameters are a function of the batch; the model keeps
\* the batch in their place.
fit(sc, features) == [n_features_in_ |-> Width(features), fitted_on |-> features]

\* a library call raised
Raised == [raised |-> TRUE]

\* StandardScaler.transform with the parameters found in the scaler: raises
\* when the scaler is not fitted or was fitted on another number of columns
transform(sc, features) ==
    IF sc = Unfitted THEN Raised
    ELSE IF sc.n_features_in_ # Width(features) THEN Raised
    ELSE [X |-> features, fitted_on |-> sc.fitted_on]

\* self.scaler after fit_transform(features) of a batch of rows; sk.raises
\* names the library call that fails in this environment
Fitted(sc, rows, features, sk) ==
    IF Len(rows) >= MinMLLogs /\ "scaler" \notin sk.raises THEN fit(sc, features) ELSE sc

\* the value of fit_transform(features), transformed by the scaler sc
Scaled(sc, features, sk) ==
    IF "scaler" \in sk.raises THEN Raised ELSE transform(sc, features)

\* the labelling that KMeans follows: sk.kmeans on features standardised by
\* their own mean and scale, sk.kmeans_other on features transformed with
\* the parameters of another batch (k-means is not invariant under a
\* change of the scales of the columns)
KMeansRule(scaled, sk) ==
    IF scaled.fitted_on = scaled.X THEN sk.kmeans ELSE sk.kmeans_other

\* KMeans(n_clusters = k, random_state = 42).fit_predict on the scaled
\* features.  With a fixed seed the labels are a fixed function of the
\* features that the model does not compute; rule names one such function:
\* rows are grouped by the rank of one feature column among its distinct
\* values, ranks from k - 1 on sharing the last cluster.  Equal rows always
\* share a cluster, and a column with a single value leaves clusters empty.
fit_predict(features, k, rule) ==
    LET col == IF rule = "by_glucose" THEN 1 ELSE 3
        Rank(v) == Cardinality({features[j][col] : j \in 1..Len(features)} \cap 0..(v - 1))
    IN  [i \in 1..Len(features) |-> Min2(k - 1, Rank(features[i][col]))]

KMeansRules(rows) ==
    LET f == ClusterFeatures(rows)
        Distinct(col) == Cardinality({f[j][col] : j \in 1..Len(f)})
        usable == {r \in {"by_glucose", "by_day"} :
                     Distinct(IF r = "by_glucose" THEN 1 ELSE 3) >= 2}
    IN  IF usable = {} THEN {"by_glucose"} ELSE usable

_describe_cluster_pattern_simple(cluster_data) ==
    LET avg_glucose == Mean(Column(cluster_data, "glucose_value"))
        common_hour == IF Len(cluster_data) > 0 THEN ModeInt(Column(cluster_data, "hour")) ELSE 12
        common_reading_type ==
            IF Len(cluster_data) > 0 THEN ModeType(Column(cluster_data, "reading_type"))
            ELSE "random"
        weekend == Count(Column(cluster_data, "is_weekend"))
        weekend_freq == IF Len(cluster_data) = 0 THEN NaN ELSE Rat(weekend, Len(cluster_data))
    IN  [time_desc    |-> IF common_hour < 6 THEN "early morning"
                          ELSE IF common_hour < 12 THEN "morning"
                          ELSE IF common_hour < 17 THEN "afternoon"
                          ELSE IF common_hour < 21 THEN "evening"
                          ELSE "night",
         glucose_desc |-> IF RatGt(avg_glucose, 180, 1) THEN "elevated"
                          ELSE IF RatGt(avg_glucose, 120, 1) THEN "moderate"
                          ELSE IF RatGt(avg_glucose, 80, 1) THEN "optimal"
                          ELSE "low",
         reading_desc |-> common_reading_type,
         day_pattern  |-> IF RatGt(weekend_freq, 6, 10) THEN "weekend"
                          ELSE IF RatLt(weekend_freq, 4, 10) THEN "weekday"
                          ELSE "mixed day"]

ClusterAnalysis(rows, clusters, cluster_id) ==
    LET cluster_data == SelectSeq([i \in 1..Len(rows) |-> [row |-> rows[i], c |-> clusters[i]]],
                                  LAMBDA e : e.c = cluster_id)
        data == [i \in 1..Len(cluster_data) |-> cluster_data[i].row]
        weekend == Count(Column(data, "is_weekend"))
        weekend_mean == IF Len(data) = 0 THEN NaN ELSE Rat(weekend * 100, Len(data))
    IN  [avg_glucose         |-> _safe_round(Mean(Column(data, "glucose_value")), 1, Zero),
         common_time         |-> IF Len(data) > 0 THEN ModeInt(Column(data, "hour")) ELSE 12,
         common_reading_type |-> IF Len(data) > 0 THEN ModeType(Column(data, "reading_type"))
                                 ELSE "random",
         weekend_frequency   |-> _safe_round(weekend_mean, 1, Zero),
         pattern_frequency   |-> Len(data),
         description         |-> _describe_cluster_pattern_simple(data)]

\* fault: the key of the smallest cluster is taken
DominantPatternSmallest(cluster_analysis) ==
    CHOOSE c \in DOMAIN cluster_analysis :
        \A e \in DOMAIN cluster_analysis :
            \/ cluster_analysis[c].pattern_frequency < cluster_analysis[e].pattern_frequency
            \/ /\ cluster_analysis[c].pattern_frequency = cluster_analysis[e].pattern_frequency
               /\ c <= e

\* max(cluster_analysis.keys(), key = pattern_frequency): the first largest
DominantPattern(cluster_analysis) ==
    CHOOSE c \in DOMAIN cluster_analysis :
        \A e \in DOMAIN cluster_analysis :
            \/ cluster_analysis[c].pattern_frequency > cluster_analysis[e].pattern_frequency
            \/ /\ cluster_analysis[c].pattern_frequency = cluster_analysis[e].pattern_frequency
               /\ c <= e

\* fault: the failure leaves no marker
ClusteringFailedSilently == <<>>

ClusteringFailed == [error |-> "Insufficient data for advanced pattern recognition"]

\* scaled is the value of self.scaler.fit_transform(features)
_identify_patterns(rows, scaled, sk) ==
    LET weekend_rows == SelectSeq(rows, LAMBDA r : r.is_weekend)
        weekday_rows == SelectSeq(rows, LAMBDA r : ~r.is_weekend)
        n_clusters == Min2(3, Len(rows) \div 4)
        clusters == fit_predict(ClusterFeatures(rows), n_clusters, KMeansRule(scaled, sk))
        cluster_analysis ==
            [c \in 0..(n_clusters - 1) |-> ClusterAnalysis(rows, clusters, c)]
        aggregates ==
            [hourly_averages |-> [h \in KeysOf(rows, "hour") |->
                                     _safe_float(GroupMean(rows, "hour", h), Zero)],
             peak_hour       |-> idxmax(rows, "hour"),
             lowest_hour     |-> idxmin(rows, "hour"),
             daily_averages  |-> [d \in KeysOf(rows, "day_of_week") |->
                                     _safe_float(GroupMean(rows, "day_of_week", d), Zero)],
             weekend_vs_weekday |->
                 [weekend_avg |-> _safe_round(Mean(Column(weekend_rows, "glucose_value")), 1, Zero),
                  weekday_avg |-> _safe_round(Mean(Column(weekday_rows, "glucose_value")), 1, Zero)]]
    IN  IF Len(rows) < MinMLLogs THEN aggregates
        ELSE IF scaled = Raised \/ "kmeans" \in sk.raises
        THEN aggregates @@ [ml_clusters |-> ClusteringFailed]
        ELSE aggregates @@ [ml_clusters      |-> cluster_analysis,
                            dominant_pattern |-> DominantPattern(cluster_analysis)]

-----------------------------------------------------------------------------
(* _generate_recommendations *)

Recommendation(type, priority, title, action) ==
    [type |-> type, priority |-> priority, title |-> title, action |-> action]

_generate_recommendations(rows) ==
    LET glucose_values == Column(rows, "glucose_value")
        avg_glucose == Mean(glucose_values)
        glucose_std == Std(glucose_values)
        cv == GuardedCv(avg_glucose, glucose_std)
        variability ==
            IF cv.kind = "sqrt" /\ SurdGt(cv, 30)
            THEN <<Recommendation("glucose_control", "high", "High Glucose Variability",
                                  "improve_consistency")>>
            ELSE <<>>
        average ==
            IF RatGt(avg_glucose, 180, 1)
            THEN <<Recommendation("glucose_control", "high", "Elevated Average Glucose",
                                  "consult_doctor")>>
            ELSE IF RatLt(avg_glucose, 70, 1)
            THEN <<Recommendation("glucose_control", "high", "Low Average Glucose",
                                  "monitor_closely")>>
            ELSE <<Recommendation("glucose_control", "normal", "Good Glucose Control",
                                  "continue_monitoring")>>
    IN  variability \o average

-----------------------------------------------------------------------------
(* _assess_risk_factors *)

Factor(count, text) == [count |-> count, text |-> text]

\* fault: an episode of either kind raises the level
_assess_risk_factors_by_episodes(rows) ==
    LET glucose_values == Column(rows, "glucose_value")
        avg_glucose == Mean(glucose_values)
        high_readings == Count([i \in 1..Len(glucose_values) |-> glucose_values[i] > 250])
        low_readings == Count([i \in 1..Len(glucose_values) |-> glucose_values[i] < 70])
    IN  [level   |-> IF RatGt(avg_glucose, 200, 1) \/ high_readings > 0 THEN "high"
                     ELSE IF RatGt(avg_glucose, 150, 1) \/ low_readings > 0 THEN "moderate"
                     ELSE "low",
         factors |-> (IF RatGt(avg_glucose, 200, 1)
                      THEN <<Factor(0, "Consistently elevated glucose levels")>>
                      ELSE IF RatGt(avg_glucose, 150, 1)
                      THEN <<Factor(0, "Moderately elevated glucose levels")>>
                      ELSE <<>>)
                     \o (IF high_readings > 0
                         THEN <<Factor(high_readings, "severe hyperglycemic episodes")>>
                         ELSE <<>>)
                     \o (IF low_readings > 0
                         THEN <<Factor(low_readings, "hypoglycemic episodes")>>
                         ELSE <<>>),
         message |-> Len(rows)]

_assess_risk_factors(rows) ==
    LET glucose_values == Column(rows, "glucose_value")
        avg_glucose == Mean(glucose_values)
        high_readings == Count([i \in 1..Len(glucose_values) |-> LET v == glucose_values[i] IN v > 250])
        low_readings == Count([i \in 1..Len(glucose_values) |-> LET v == glucose_values[i] IN v < 70])
        risk_level == IF RatGt(avg_glucose, 200, 1) THEN "high"
                      ELSE IF RatGt(avg_glucose, 150, 1) THEN "moderate"
                      ELSE "low"
        average_factor ==
            IF RatGt(avg_glucose, 200, 1)
            THEN <<Factor(0, "Consistently elevated glucose levels")>>
            ELSE IF RatGt(avg_glucose, 150, 1)
            THEN <<Factor(0, "Moderately elevated glucose levels")>>
            ELSE <<>>
        high_factor == IF high_readings > 0
                       THEN <<Factor(high_readings, "severe hyperglycemic episodes")>>
                       ELSE <<>>
        low_factor == IF low_readings > 0
                      THEN <<Factor(low_readings, "hypoglycemic episodes")>>
                      ELSE <<>>
    IN  [level   |-> risk_level,
         factors |-> average_factor \o high_factor \o low_factor,
         message |-> Len(rows)]

-----------------------------------------------------------------------------
(* _analyze_time_patterns *)

_analyze_time_patterns(rows) ==
    LET morning_readings ==
            Column(SelectSeq(rows, LAMBDA r : r.hour >= 6 /\ r.hour <= 9), "glucose_value")
        night_readings ==
            Column(SelectSeq(rows, LAMBDA r : r.hour >= 22 /\ r.hour <= 24), "glucose_value")
        morning == Mean(morning_readings)
        night == Mean(night_readings)
        dawn_phenomenon ==
            /\ Len(morning_readings) > 0
            /\ Len(night_readings) > 0
            /\ morning.n * night.d > (night.n + 20 * night.d) * morning.d
    IN  [dawn_phenomenon_detected |-> dawn_phenomenon,
         morning_average |-> IF Len(morning_readings) > 0 THEN _safe_round(morning, 1, Zero)
                             ELSE None,
         evening_average |-> IF Len(night_readings) > 0 THEN _safe_round(night, 1, Zero)
                             ELSE None]

-----------------------------------------------------------------------------
(* _analyze_meal_correlation *)

\* the meal types in alphabetical order (the key order of groupby)
MealTypes == <<"breakfast", "dinner", "lunch", "other", "snack">>

MealRank(m) == CHOOSE i \in 1..Len(MealTypes) : MealTypes[i] = m

_analyze_meal_correlation(rows) ==
    LET meal_data == SelectSeq(rows, LAMBDA r : r.meal_type # NoMeal)
        meals == KeysOf(meal_data, "meal_type")
        meal_averages == [m \in meals |-> GroupMean(meal_data, "meal_type", m)]
        highest ==
            CHOOSE m \in meals :
                \A g \in meals :
                    \/ MeanLess(meal_averages[g], meal_averages[m])
                    \/ (~MeanLess(meal_averages[m], meal_averages[g])
                        /\ MealRank(m) <= MealRank(g))
    IN  IF Len(meal_data) = 0
        THEN [insufficient_meal_data |-> TRUE]
        ELSE [meal_averages |-> meal_averages, highest_meal_impact |-> highest]

-----------------------------------------------------------------------------
(* _ml_anomaly_detection / _detect_anomalies *)

\* IsolationForest(contamination = 0.1, random_state = 42).fit_predict: the
\* positions labelled -1.  The offset is the 10th percentile of the scores, so
\* below 20 rows at most the row of lowest score is flagged, and a row that
\* has a twin (same features, same score) is not.  Which row scores lowest is
\* a fixed function of the features that the model does not compute; rule
\* names one such function.
anomaly_indices(features, rule) ==
    LET n == Len(features)
        top == CHOOSE i \in 1..n : \A j \in 1..n :
                   \/ features[i][1] > features[j][1]
                   \/ (features[i][1] = features[j][1] /\ i <= j)
        candidate == IF rule = "highest_glucose" THEN top ELSE 1
    IN  IF \E j \in 1..n : j # candidate /\ features[j] = features[candidate]
        THEN {}
        ELSE {candidate}

IForestRules == {"highest_glucose", "earliest"}

\* the elements of s at the positions in idx, in order
AtPositions(s, idx) ==
    LET marked == SelectSeq([i \in 1..Len(s) |-> [v |-> s[i], keep |-> i \in idx]],
                            LAMBDA e : e.keep)
    IN  [i \in 1..Len(marked) |-> marked[i].v]

\* scaled is the value of self.scaler.fit_transform(features); the labels of
\* the isolation forest do not depend on the parameters of the scaler (the
\* splits of a seeded tree are placed relative to the range of a column)
_ml_anomaly_detection(rows, scaled, sk) ==
    IF Len(rows) < MinMLLogs
    THEN [insufficient_data |-> TRUE]
    ELSE IF scaled = Raised \/ "iforest" \in sk.raises
    THEN [error |-> "ML anomaly detection unavailable"]
    ELSE LET idx == anomaly_indices(AnomalyFeatures(rows), sk.iforest)
             anomalous_readings == AtPositions(Column(rows, "glucose_value"), idx)
         IN  [ml_anomaly_count         |-> Cardinality(idx),
              ml_anomaly_percentage    |-> Round(Rat(Cardinality(idx) * 100, Len(rows)), 1),
              anomalous_glucose_values |->
                  [i \in 1..Len(anomalous_readings) |->
                      _safe_round(Rat(anomalous_readings[i], 1), 1, Zero)]]

\* fault: a reading of 300 counts as severe
SevereHighLowered == 300 - 1

SevereHigh == 300
SevereLow == 50

\* fault: a value on a threshold is counted
IsAnomalyInclusive(v, upper_threshold, lower_threshold) ==
    \/ AffCmp(upper_threshold, v, 1) <= 0
    \/ AffCmp(lower_threshold, v, 1) >= 0

\* a value beyond the thresholds upper = mean + 2 std, lower = mean - 2 std
IsAnomaly(v, upper_threshold, lower_threshold) ==
    \/ AffCmp(upper_threshold, v, 1) < 0
    \/ AffCmp(lower_threshold, v, 1) > 0

_detect_anomalies(rows, scaled, sk) ==
    LET glucose_values == Column(rows, "glucose_value")
        n == Len(glucose_values)
        mean_glucose == Mean(glucose_values)
        std_glucose == Std(glucose_values)
        upper_threshold ==
            IF IsNaN(mean_glucose) \/ IsNaN(std_glucose) THEN NaN
            ELSE Aff(mean_glucose.n, mean_glucose.d, 2 * std_glucose.c,
                     std_glucose.n, std_glucose.d)
        lower_threshold ==
            IF IsNaN(mean_glucose) \/ IsNaN(std_glucose) THEN NaN
            ELSE Aff(mean_glucose.n, mean_glucose.d, 0 - 2 * std_glucose.c,
                     std_glucose.n, std_glucose.d)
        Anomalous(v) ==
            /\ ~IsNaN(upper_threshold)
            /\ IsAnomaly(v, upper_threshold, lower_threshold)
        anomalies == Count([i \in 1..Len(glucose_values) |-> Anomalous(glucose_values[i])])
    IN  [anomaly_count          |-> anomalies,
         anomaly_percentage     |-> IF n > 0 THEN _safe_round(Rat(anomalies * 100, n), 1, Zero)
                                    ELSE Zero,
         severe_highs           |-> Count([i \in 1..Len(glucose_values) |-> LET v == glucose_values[i] IN v > SevereHigh]),
         severe_lows            |-> Count([i \in 1..Len(glucose_values) |-> LET v == glucose_values[i] IN v < SevereLow]),
         anomaly_threshold_high |-> _safe_round(upper_threshold, 1, Zero),
         anomaly_threshold_low  |-> _safe_round(lower_threshold, 1, Zero),
         ml_anomaly_detection   |-> _ml_anomaly_detection(rows, scaled, sk)]

-----------------------------------------------------------------------------
(* get_risk_assessment: the overall risk score *)

Get(dict, key, default) == IF key \in DOMAIN dict THEN dict[key] ELSE default

\* fault: an axis at high weighs 2
AxisPointsLight(risk_data, axis) ==
    IF Get(risk_data, axis, "None") = "high" THEN 2
    ELSE IF Get(risk_data, axis, "None") = "moderate" THEN 1
    ELSE 0

\* the points of one axis of risk_data
AxisPoints(risk_data, axis) ==
    IF Get(risk_data, axis, "None") = "high" THEN 3
    ELSE IF Get(risk_data, axis, "None") = "moderate" THEN 1
    ELSE 0

\* fault: the two contributions are exchanged
TimeInRangePointsExchanged(overview) ==
    LET time_in_range == Get(overview, "time_in_range_percent", Rat(100, 1))
    IN  IF RatLt(time_in_range, 50, 1) THEN 1
        ELSE IF RatLt(time_in_range, 70, 1) THEN 2
        ELSE 0

\* the points of the time in range
TimeInRangePoints(overview) ==
    LET time_in_range == Get(overview, "time_in_range_percent", Rat(100, 1))
    IN  IF RatLt(time_in_range, 50, 1) THEN 2
        ELSE IF RatLt(time_in_range, 70, 1) THEN 1
        ELSE 0

OverallRisk(overall_risk_score) ==
    IF overall_risk_score >= 6 THEN "high"
    ELSE IF overall_risk_score >= 3 THEN "moderate"
    ELSE "low"

RiskScoring(result) ==
    LET risk_data == Get(result, "risk_assessment", <<>>)
        overview == Get(result, "overview", <<>>)
        overall_risk_score ==
            AxisPoints(risk_data, "variability_risk")
            + AxisPoints(risk_data, "hypoglycemia_risk")
            + AxisPoints(risk_data, "hyperglycemia_risk")
            + TimeInRangePoints(overview)
        risk_factors ==
            (IF Get(risk_data, "variability_risk", "None") = "high"
             THEN <<"High glucose variability">> ELSE <<>>)
            \o (IF Get(risk_data, "hypoglycemia_risk", "None") = "high"
                THEN <<"Frequent low glucose episodes">> ELSE <<>>)
            \o (IF Get(risk_data, "hyperglycemia_risk", "None") = "high"
                THEN <<"Frequent high glucose episodes">> ELSE <<>>)
            \o (IF TimeInRangePoints(overview) = 2
                THEN <<"Poor glucose control (low time in range)">> ELSE <<>>)
    IN  [overall_risk_level  |-> OverallRisk(overall_risk_score),
         risk_score          |-> overall_risk_score,
         risk_factors        |-> risk_factors,
         detailed_assessment |-> risk_data,
         glucose_overview    |-> overview]

-----------------------------------------------------------------------------
(* State after construction: the arguments are chosen, nothing has run *)

Nothing == <<>>

AllEqual(s) == \A i, j \in 1..Len(s) : s[i] = s[j]

\* the library calls that fail together in one environment
LibraryFailures == {{}, {"scaler"}, {"kmeans"}, {"iforest"}}

\* the behaviours of the library that matter for the input ls
SklearnChoices(ls) ==
    LET rows == [i \in 1..Len(ls) |-> Row(ls[i])]
    IN  [score_const : IF AllEqual(Column(rows, "glucose_value")) /\ Len(ls) >= min_logs_for_analysis
                       THEN {0, 1} ELSE {1},
         kmeans      : IF Len(ls) >= MinMLLogs THEN KMeansRules(rows) ELSE {"by_glucose"},
         iforest     : IF Len(ls) >= MinMLLogs THEN IForestRules ELSE {"highest_glucose"},
         kmeans_other : {"by_glucose"},
         raises      : IF Len(ls) >= MinMLLogs THEN LibraryFailures ELSE {{}}]

Init ==
    /\ logs \in InputLogs
    /\ user \in Users
    /\ sklearn \in SklearnChoices(logs)
    /\ pc = "entry"
    /\ calls = <<>>
    /\ df = Nothing
    /\ overview_stats = Nothing
    /\ trends = Nothing
    /\ patterns = Nothing
    /\ recommendations = Nothing
    /\ risk_assessment = Nothing
    /\ time_analysis = Nothing
    /\ meal_correlation = Nothing
    /\ anomaly_detection = Nothing
    /\ analysis = Nothing
    /\ risk_response = Nothing
    /\ scaler = Unfitted
    /\ history = <<>>
    /\ tasks = Nothing
    /\ recommendations_response = Nothing

-----------------------------------------------------------------------------
(* analyze_glucose_patterns, one action per statement *)

Call(name) == calls' = Append(calls, name)

NoLocals ==
    /\ df' = Nothing
    /\ overview_stats' = Nothing
    /\ trends' = Nothing
    /\ patterns' = Nothing
    /\ recommendations' = Nothing
    /\ risk_assessment' = Nothing
    /\ time_analysis' = Nothing
    /\ meal_correlation' = Nothing
    /\ anomaly_detection' = Nothing

\* len(logs) < min_logs_for_analysis: return the insufficient-data response
InsufficientData ==
    /\ pc = "entry"
    /\ Len(logs) < min_logs_for_analysis
    /\ analysis' = _insufficient_data_response
    /\ Call("_insufficient_data_response")
    /\ pc' = "returned"
    /\ UNCHANGED <<logs, user, sklearn, scaler, outside, locals, risk_response>>

LogsToDataframe ==
    /\ pc = "entry"
    /\ Len(logs) >= min_logs_for_analysis
    /\ df' \in _logs_to_dataframe(logs)
    /\ logs' = logs_after_loop(logs)
    /\ Call("_logs_to_dataframe")
    /\ pc' = "overview"
    /\ UNCHANGED <<user, sklearn, scaler, outside, overview_stats, trends, patterns, recommendations,
                   risk_assessment, time_analysis, meal_correlation, anomaly_detection,
                   analysis, risk_response>>

CalculateOverviewStats ==
    /\ pc = "overview"
    /\ overview_stats' = _calculate_overview_stats(df, user)
    /\ user' = user_after_overview(user)
    /\ Call("_calculate_overview_stats")
    /\ pc' = "trends"
    /\ UNCHANGED <<logs, sklearn, scaler, outside, df, trends, patterns, recommendations,
                   risk_assessment, time_analysis, meal_correlation, anomaly_detection,
                   analysis, risk_response>>

AnalyzeTrends ==
    /\ pc = "trends"
    /\ \E df_sorted \in sort_values(df) :
           trends' = _analyze_trends(df, df_sorted, sklearn.score_const)
    /\ Call("_analyze_trends")
    /\ pc' = "patterns"
    /\ UNCHANGED <<logs, user, sklearn, scaler, outside, df, overview_stats, patterns, recommendations,
                   risk_assessment, time_analysis, meal_correlation, anomaly_detection,
                   analysis, risk_response>>

IdentifyPatterns ==
    /\ pc = "patterns"
    /\ scaler' = Fitted(scaler, df, ClusterFeatures(df), sklearn)
    /\ patterns' = _identify_patterns(df, Scaled(scaler', ClusterFeatures(df), sklearn), sklearn)
    /\ Call("_identify_patterns")
    /\ pc' = "recommendations"
    /\ UNCHANGED <<logs, user, sklearn, outside, df, overview_stats, trends, recommendations,
                   risk_assessment, time_analysis, meal_correlation, anomaly_detection,
                   analysis, risk_response>>

GenerateRecommendations ==
    /\ pc = "recommendations"
    /\ recommendations' = _generate_recommendations(df)
    /\ Call("_generate_recommendations")
    /\ pc' = "risk"
    /\ UNCHANGED <<logs, user, sklearn, scaler, outside, df, overview_stats, trends, patterns,
                   risk_assessment, time_analysis, meal_correlation, anomaly_detection,
                   analysis, risk_response>>

AssessRiskFactors ==
    /\ pc = "risk"
    /\ risk_assessment' = _assess_risk_factors(df)
    /\ Call("_assess_risk_factors")
    /\ pc' = "time"
    /\ UNCHANGED <<logs, user, sklearn, scaler, outside, df, overview_stats, trends, patterns,
                   recommendations, time_analysis, meal_correlation, anomaly_detection,
                   analysis, risk_response>>

AnalyzeTimePatterns ==
    /\ pc = "time"
    /\ time_analysis' = _analyze_time_patterns(df)
    /\ Call("_analyze_time_patterns")
    /\ pc' = "meal"
    /\ UNCHANGED <<logs, user, sklearn, scaler, outside, df, overview_stats, trends, patterns,
                   recommendations, risk_assessment, meal_correlation, anomaly_detection,
                   analysis, risk_response>>

AnalyzeMealCorrelation ==
    /\ pc = "meal"
    /\ meal_correlation' = _analyze_meal_correlation(df)
    /\ Call("_analyze_meal_correlation")
    /\ pc' = "anomaly"
    /\ UNCHANGED <<logs, user, sklearn, scaler, outside, df, overview_stats, trends, patterns,
                   recommendations, risk_assessment, time_analysis, anomaly_detection,
                   analysis, risk_response>>

DetectAnomalies ==
    /\ pc = "anomaly"
    /\ scaler' = Fitted(scaler, df, AnomalyFeatures(df), sklearn)
    /\ anomaly_detection' = _detect_anomalies(df, Scaled(scaler', AnomalyFeatures(df), sklearn), sklearn)
    /\ Call("_detect_anomalies")
    /\ pc' = "assemble"
    /\ UNCHANGED <<logs, user, sklearn, outside, df, overview_stats, trends, patterns,
                   recommendations, risk_assessment, time_analysis, meal_correlation,
                   analysis, risk_response>>

Unavailable == [insufficient_data |-> TRUE]

\* build the analysis dict and return it
ReturnAnalysis ==
    /\ pc = "assemble"
    /\ analysis' = [overview                 |-> overview_stats,
                    trends                   |-> trends,
                    patterns                 |-> patterns,
                    recommendations          |-> recommendations,
                    risk_assessment          |-> risk_assessment,
                    time_analysis            |-> time_analysis,
                    meal_correlation         |-> meal_correlation,
                    exercise_impact          |-> Unavailable,
                    medication_effectiveness |-> Unavailable,
                    anomaly_detection        |-> anomaly_detection]
    /\ NoLocals
    /\ pc' = "returned"
    /\ UNCHANGED <<logs, user, sklearn, scaler, outside, calls, risk_response>>

ComponentPcs ==
    {"overview", "trends", "patterns", "recommendations", "risk", "time", "meal", "anomaly"}

\* except Exception: a component raises (a failure of the environment below
\* the service, at any component), the error response is returned
AnalysisError ==
    /\ pc \in ComponentPcs
    /\ analysis' = _error_response
    /\ Call("_error_response")
    /\ NoLocals
    /\ pc' = "returned"
    /\ UNCHANGED <<logs, user, sklearn, scaler, outside, risk_response>>

-----------------------------------------------------------------------------
(* get_risk_assessment *)

\* fewer than 4 logs: the endpoint answers without calling the service
RiskAssessmentInsufficient ==
    /\ pc = "entry"
    /\ Len(logs) < 4
    /\ risk_response' = [risk_level |-> "unknown"]
    /\ pc' = "responded"
    /\ UNCHANGED <<logs, user, sklearn, scaler, outside, calls, locals, analysis>>

\* the endpoint scores the analysis that the service returned to it
GetRiskAssessment ==
    /\ pc = "returned"
    /\ Len(logs) >= 4
    /\ risk_response' = RiskScoring(analysis)
    /\ pc' = "responded"
    /\ UNCHANGED <<logs, user, sklearn, scaler, outside, calls, locals, analysis>>

-----------------------------------------------------------------------------
(* get_personalized_recommendations *)

\* what the endpoint reads of the user profile
Profiles ==
    {[diabetes_type |-> "type1", activity_level |-> "low"],
     [diabetes_type |-> "type2", activity_level |-> "None"],
     [diabetes_type |-> "None",  activity_level |-> "low"],
     [diabetes_type |-> "None",  activity_level |-> "None"]}

\* the general recommendations of the profile
general_recommendations(profile) ==
    (IF profile.diabetes_type = "type1"
     THEN <<Recommendation("diabetes_management", "medium", "Type 1 Diabetes Management",
                           "maintain_routine")>>
     ELSE IF profile.diabetes_type = "type2"
     THEN <<Recommendation("diabetes_management", "medium", "Type 2 Diabetes Management",
                           "lifestyle_focus")>>
     ELSE <<>>)
    \o (IF profile.activity_level = "low"
        THEN <<Recommendation("exercise", "medium", "Increase Physical Activity",
                              "increase_activity")>>
        ELSE <<>>)

\* fault: a priority outside the table sorts first
PriorityKeyDefaultFirst(rec) ==
    IF rec.priority = "high" THEN 0
    ELSE IF rec.priority = "medium" THEN 1
    ELSE IF rec.priority = "low" THEN 2
    ELSE 0

\* priority_order.get(x.get("priority", "low"), 2)
PriorityKey(rec) ==
    IF rec.priority = "high" THEN 0
    ELSE IF rec.priority = "medium" THEN 1
    ELSE 2

\* list.sort(key = ...): stable
SortByPriority(recs) ==
    SelectSeq(recs, LAMBDA r : PriorityKey(r) = 0)
    \o SelectSeq(recs, LAMBDA r : PriorityKey(r) = 1)
    \o SelectSeq(recs, LAMBDA r : PriorityKey(r) = 2)

PersonalizedRecommendations(result, profile) ==
    LET all_recommendations ==
            SortByPriority(Get(result, "recommendations", <<>>)
                           \o general_recommendations(profile))
    IN  [recommendations       |-> all_recommendations,
         risk_assessment       |-> Get(result, "risk_assessment", <<>>),
         total_recommendations |-> Len(all_recommendations),
         high_priority_count   |->
             Len(SelectSeq(all_recommendations, LAMBDA r : r.priority = "high")),
         profile               |-> profile]

\* the endpoint merges the recommendations of the analysis that the service
\* returned to it with those of the profile
GetPersonalizedRecommendations ==
    /\ pc = "returned"
    /\ \E profile \in Profiles :
           recommendations_response' = PersonalizedRecommendations(analysis, profile)
    /\ pc' = "responded"
    /\ UNCHANGED <<logs, user, sklearn, scaler, history, tasks, calls, locals, analysis,
                   risk_response>>

Next ==
    \/ InsufficientData
    \/ LogsToDataframe
    \/ CalculateOverviewStats
    \/ AnalyzeTrends
    \/ IdentifyPatterns
    \/ GenerateRecommendations
    \/ AssessRiskFactors
    \/ AnalyzeTimePatterns
    \/ AnalyzeMealCorrelation
    \/ DetectAnomalies
    \/ ReturnAnalysis
    \/ AnalysisError
    \/ RiskAssessmentInsufficient
    \/ GetRiskAssessment
    \/ GetPersonalizedRecommendations

Spec == Init /\ [][Next]_vars

-----------------------------------------------------------------------------
(* The scoring of get_risk_assessment as a function of the analysis dict:   *)
(* every risk_assessment holding any of the three axes at any level, every  *)
(* overview with or without a time_in_range_percent                         *)

Axes == {"variability_risk", "hypoglycemia_risk", "hyperglycemia_risk"}
Levels == {"low", "moderate", "high"}

RiskDicts == UNION {[K -> Levels] : K \in SUBSET Axes}

OverviewDicts ==
    {[time_in_range |-> Rat(p, 1)] : p \in {40, 100}}
    \cup {[time_in_range_percent |-> Rat(p, 1)] : p \in {0, 49, 50, 69, 70, 100}}

InitScore ==
    /\ logs = Scenario1Logs
    /\ user \in Users
    /\ sklearn \in SklearnChoices(logs)
    /\ pc = "returned"
    /\ calls = <<>>
    /\ df = Nothing
    /\ overview_stats = Nothing
    /\ trends = Nothing
    /\ patterns = Nothing
    /\ recommendations = Nothing
    /\ risk_assessment = Nothing
    /\ time_analysis = Nothing
    /\ meal_correlation = Nothing
    /\ anomaly_detection = Nothing
    /\ analysis \in {[risk_assessment |-> r, overview |-> o] : r \in RiskDicts, o \in OverviewDicts}
    /\ risk_response = Nothing
    /\ scaler = Unfitted
    /\ history = <<>>
    /\ tasks = Nothing
    /\ recommendations_response = Nothing

NextScore == GetRiskAssessment

SpecScore == InitScore /\ [][NextScore]_vars

-----------------------------------------------------------------------------
(* Two invocations of analyze_glucose_patterns running as threads on the    *)
(* module-level ai_service.  What they share is self.scaler; fit_transform  *)
(* is fit followed by transform, and a thread can run between the two.  The *)
(* components that touch only the DataFrame of their own call are computed  *)
(* when the call returns.                                                   *)

Tasks == {1, 2}

\* series of 10 daily readings, without equal reading times
SharedInputs ==
    {Daily(<<400, 80, 80, 80, 80, 80, 80, 80, 80, 80>>),
     Daily(<<100, 120, 100, 120, 100, 120, 100, 120, 100, 120>>),
     Daily(<<60, 70, 80, 90, 100, 110, 120, 130, 140, 310>>)}

\* the library on these series: no call fails
SharedSklearn ==
    [score_const : {1}, kmeans : {"by_glucose", "by_day"},
     kmeans_other : {"by_glucose", "by_day"}, iforest : IForestRules, raises : {{}}]

\* the dict of lines 104-115 for rows, given its patterns p and anomalies a
AnalysisOf(rows, u, sk, p, a) ==
    [overview                 |-> _calculate_overview_stats(rows, u),
     trends                   |-> _analyze_trends(rows, CHOOSE d \in sort_values(rows) : TRUE,
                                                  sk.score_const),
     patterns                 |-> p,
     recommendations          |-> _generate_recommendations(rows),
     risk_assessment          |-> _assess_risk_factors(rows),
     time_analysis            |-> _analyze_time_patterns(rows),
     meal_correlation         |-> _analyze_meal_correlation(rows),
     exercise_impact          |-> Unavailable,
     medication_effectiveness |-> Unavailable,
     anomaly_detection        |-> a]

\* the result of a call that runs alone: each fit_transform is one step
AnalysisAlone(rows, u, sk) ==
    AnalysisOf(rows, u, sk,
               _identify_patterns(rows, transform(fit(Unfitted, ClusterFeatures(rows)),
                                                  ClusterFeatures(rows)), sk),
               _detect_anomalies(rows, transform(fit(Unfitted, AnomalyFeatures(rows)),
                                                 AnomalyFeatures(rows)), sk))

NewTask(ls) ==
    [pc |-> "entry", logs |-> ls, df |-> Nothing, patterns |-> Nothing,
     anomaly_detection |-> Nothing, result |-> Nothing]

InitConc ==
    /\ tasks \in [Tasks -> {NewTask(ls) : ls \in SharedInputs}]
    /\ scaler = Unfitted
    /\ sklearn \in SharedSklearn
    /\ user = [target_range_min |-> 80, target_range_max |-> 180]
    /\ logs = <<>>
    /\ pc = "idle"
    /\ calls = <<>>
    /\ df = Nothing
    /\ overview_stats = Nothing
    /\ trends = Nothing
    /\ patterns = Nothing
    /\ recommendations = Nothing
    /\ risk_assessment = Nothing
    /\ time_analysis = Nothing
    /\ meal_correlation = Nothing
    /\ anomaly_detection = Nothing
    /\ analysis = Nothing
    /\ risk_response = Nothing
    /\ history = <<>>
    /\ recommendations_response = Nothing

\* what the threads do not touch
sequential == <<logs, user, pc, calls, locals, analysis, sklearn, risk_response,
                history, recommendations_response>>

\* lines 90-94: the thread builds its DataFrame
TaskNormalize(t) ==
    /\ tasks[t].pc = "entry"
    /\ \E rows \in _logs_to_dataframe(tasks[t].logs) :
           tasks' = [tasks EXCEPT ![t] = [@ EXCEPT !.pc = "patterns_fit", !.df = rows]]
    /\ UNCHANGED <<scaler, sequential>>

\* line 405, first half: self.scaler.fit(features)
TaskFitClusters(t) ==
    /\ tasks[t].pc = "patterns_fit"
    /\ scaler' = fit(scaler, ClusterFeatures(tasks[t].df))
    /\ tasks' = [tasks EXCEPT ![t] = [@ EXCEPT !.pc = "patterns_transform"]]
    /\ UNCHANGED sequential

\* line 405, second half, to line 436: transform with the scaler as it is now
TaskCluster(t) ==
    /\ tasks[t].pc = "patterns_transform"
    /\ tasks' = [tasks EXCEPT ![t] =
                    [@ EXCEPT !.pc = "anomaly_fit",
                              !.patterns = _identify_patterns(
                                  tasks[t].df,
                                  transform(scaler, ClusterFeatures(tasks[t].df)),
                                  sklearn)]]
    /\ UNCHANGED <<scaler, sequential>>

\* line 553, first half
TaskFitAnomaly(t) ==
    /\ tasks[t].pc = "anomaly_fit"
    /\ scaler' = fit(scaler, AnomalyFeatures(tasks[t].df))
    /\ tasks' = [tasks EXCEPT ![t] = [@ EXCEPT !.pc = "anomaly_transform"]]
    /\ UNCHANGED sequential

\* line 553, second half, to line 572
TaskDetect(t) ==
    /\ tasks[t].pc = "anomaly_transform"
    /\ tasks' = [tasks EXCEPT ![t] =
                    [@ EXCEPT !.pc = "assemble",
                              !.anomaly_detection = _detect_anomalies(
                                  tasks[t].df,
                                  transform(scaler, AnomalyFeatures(tasks[t].df)),
                                  sklearn)]]
    /\ UNCHANGED <<scaler, sequential>>

\* lines 104-118
TaskReturn(t) ==
    /\ tasks[t].pc = "assemble"
    /\ tasks' = [tasks EXCEPT ![t] =
                    [@ EXCEPT !.pc = "returned",
                              !.result = AnalysisOf(tasks[t].df, user, sklearn,
                                                    tasks[t].patterns,
                                                    tasks[t].anomaly_detection)]]
    /\ UNCHANGED <<scaler, sequential>>

NextConc ==
    \E t \in Tasks :
        \/ TaskNormalize(t)
        \/ TaskFitClusters(t)
        \/ TaskCluster(t)
        \/ TaskFitAnomaly(t)
        \/ TaskDetect(t)
        \/ TaskReturn(t)

SpecConc == InitConc /\ [][NextConc]_vars


-----------------------------------------------------------------------------
(* Calls one after another on the module-level ai_service: the scaler of    *)
(* the instance outlives a call; history records the calls that returned    *)

\* most calls made on the instance
MaxCalls == 3

InitSeq ==
    /\ logs \in SharedInputs
    /\ user \in Users
    /\ sklearn \in SharedSklearn
    /\ scaler = Unfitted
    /\ history = <<>>
    /\ pc = "entry"
    /\ calls = <<>>
    /\ df = Nothing
    /\ overview_stats = Nothing
    /\ trends = Nothing
    /\ patterns = Nothing
    /\ recommendations = Nothing
    /\ risk_assessment = Nothing
    /\ time_analysis = Nothing
    /\ meal_correlation = Nothing
    /\ anomaly_detection = Nothing
    /\ analysis = Nothing
    /\ risk_response = Nothing
    /\ tasks = Nothing
    /\ recommendations_response = Nothing

\* the call returned; the next request calls the same instance
NextCall ==
    /\ pc = "returned"
    /\ Len(history) + 1 < MaxCalls
    /\ history' = Append(history, [logs |-> logs, user |-> user, analysis |-> analysis])
    /\ logs' \in SharedInputs
    /\ user' \in Users
    /\ pc' = "entry"
    /\ analysis' = Nothing
    /\ calls' = <<>>
    /\ UNCHANGED <<sklearn, scaler, locals, risk_response, tasks, recommendations_response>>

NextSeq ==
    \/ LogsToDataframe
    \/ CalculateOverviewStats
    \/ AnalyzeTrends
    \/ IdentifyPatterns
    \/ GenerateRecommendations
    \/ AssessRiskFactors
    \/ AnalyzeTimePatterns
    \/ AnalyzeMealCorrelation
    \/ DetectAnomalies
    \/ ReturnAnalysis
    \/ NextCall

SpecSeq == InitSeq /\ [][NextSeq]_vars


-----------------------------------------------------------------------------
(* One call on series of 4 to MaxReadings readings with pairwise distinct   *)
(* reading times, handed over in several orders; no library call fails      *)

\* longest series of daily readings
MaxReadings == 13

\* the glucose values of a series of n daily readings, oldest first
SeriesValues(shape, n) ==
    [i \in 1..n |->
        IF shape = "flat" THEN 100
        ELSE IF shape = "step" THEN 100 + (i - 1)
        ELSE IF shape = "linear" THEN 100 + 22 * (i - 1)
        ELSE IF shape = "wave" THEN 100 + 10 * (i - 1) + (IF i % 3 = 1 THEN 35 ELSE 0 - 20)
        ELSE IF shape = "alternating" THEN (IF i % 2 = 1 THEN 40 ELSE 310)
        ELSE IF shape = "thresholds"
        THEN (IF i % 4 = 1 THEN 50 ELSE IF i % 4 = 2 THEN 300 ELSE IF i % 4 = 3 THEN 49 ELSE 301)
        ELSE IF i = n THEN 400 ELSE 80]

\* the orders in which a caller hands over n readings: every order of four
\* readings; above four the chronological, the latest-first (the order of
\* the endpoints' queries) and an interleaved one
ListOrders(n) ==
    IF n <= 4
    THEN {p \in [1..n -> 1..n] : \A i, j \in 1..n : p[i] = p[j] => i = j}
    ELSE {[i \in 1..n |-> i],
          [i \in 1..n |-> n + 1 - i],
          [i \in 1..n |-> IF 2 * i - 1 <= n THEN 2 * i - 1 ELSE 2 * (i - ((n + 1) \div 2))]}

\* every shape of series, of every length, in every order of the list
SeriesLogs ==
    UNION { { [i \in 1..n |-> Daily(SeriesValues(shape, n))[p[i]]] :
                shape \in {"flat", "step", "linear", "wave", "alternating", "thresholds", "spike"},
                p \in ListOrders(n) } :
            n \in min_logs_for_analysis..MaxReadings }

InitSeries ==
    /\ logs \in SeriesLogs
    /\ user \in Users
    /\ sklearn \in {sk \in SklearnChoices(logs) : sk.raises = {}}
    /\ pc = "entry"
    /\ calls = <<>>
    /\ df = Nothing
    /\ overview_stats = Nothing
    /\ trends = Nothing
    /\ patterns = Nothing
    /\ recommendations = Nothing
    /\ risk_assessment = Nothing
    /\ time_analysis = Nothing
    /\ meal_correlation = Nothing
    /\ anomaly_detection = Nothing
    /\ analysis = Nothing
    /\ risk_response = Nothing
    /\ scaler = Unfitted
    /\ history = <<>>
    /\ tasks = Nothing
    /\ recommendations_response = Nothing

NextSeries ==
    \/ LogsToDataframe
    \/ CalculateOverviewStats
    \/ AnalyzeTrends
    \/ IdentifyPatterns
    \/ GenerateRecommendations
    \/ AssessRiskFactors
    \/ AnalyzeTimePatterns
    \/ AnalyzeMealCorrelation
    \/ DetectAnomalies
    \/ ReturnAnalysis

SpecSeries == InitSeries /\ [][NextSeries]_vars


-----------------------------------------------------------------------------
(* Properties *)

Returned == pc \in {"returned", "responded"} /\ analysis # Nothing

\* the call returned through the full analysis
FullExit == Returned /\ "status" \notin DOMAIN analysis /\ "anomaly_detection" \in DOMAIN analysis

InsufficientExit == Returned /\ Get(analysis, "status", "None") = "insufficient_data"

ErrorExit == Returned /\ Get(analysis, "status", "None") = "error"

Sections ==
    {"overview", "trends", "patterns", "risk_assessment", "anomaly_detection", "recommendations"}

ComponentNames ==
    {"_logs_to_dataframe", "_calculate_overview_stats", "_analyze_trends",
     "_identify_patterns", "_generate_recommendations", "_assess_risk_factors",
     "_analyze_time_patterns", "_analyze_meal_correlation", "_detect_anomalies"}

GlucoseValues == [i \in 1..Len(logs) |-> logs[i].glucose_value]

\* C1: a call with fewer than 4 readings returns the canonical
\* insufficient-data result (status insufficient_data, overview all zero,
\* trend insufficient_data, no patterns, exactly the one "collect more data"
\* recommendation) and invokes no normalizer and no analysis component.
C1_InsufficientDataResult ==
    (Returned /\ Len(logs) < 4) =>
        /\ DOMAIN analysis = {"status", "overview", "trends", "patterns", "recommendations"}
        /\ analysis.status = "insufficient_data"
        /\ analysis.overview.total_readings = 0
        /\ RatEq(analysis.overview.average_glucose, 0, 1)
        /\ RatEq(analysis.overview.time_in_range, 0, 1)
        /\ analysis.trends.trend = "insufficient_data"
        /\ analysis.patterns = <<>>
        /\ Len(analysis.recommendations) = 1
        /\ analysis.recommendations[1].type = "data_collection"
        /\ analysis.recommendations[1].action = "log_more_readings"
        /\ \A i \in 1..Len(calls) : calls[i] \notin ComponentNames
        /\ df = Nothing

C1_Witness == pc = "returned" /\ Len(logs) = 3 /\ InsufficientExit

\* C2: every returned result, on each of the three exits (full analysis,
\* insufficient data, analysis error), holds all six sections.
C2_AllSectionsOnEveryExit == Returned => Sections \subseteq DOMAIN analysis

\* the sections of each exit: the full analysis returns all six; the
\* insufficient-data result and the error result hold overview, trends,
\* patterns and recommendations only
ExitSections ==
    /\ Returned => (FullExit \/ InsufficientExit \/ ErrorExit)
    /\ FullExit => Sections \subseteq DOMAIN analysis
    /\ (InsufficientExit \/ ErrorExit) =>
           Sections \cap DOMAIN analysis = {"overview", "trends", "patterns", "recommendations"}

\* the effective target range of the overview
EffMin == IF user.target_range_min = 0 THEN 80 ELSE user.target_range_min
EffMax == IF user.target_range_max = 0 THEN 180 ELSE user.target_range_max

ClassesOf(v) ==
    (IF v < EffMin THEN {"below"} ELSE {})
    \cup (IF v > EffMax THEN {"above"} ELSE {})
    \cup (IF EffMin <= v /\ v <= EffMax THEN {"in"} ELSE {})

NumberIn(class) == Cardinality({i \in 1..Len(logs) : class \in ClassesOf(logs[i].glucose_value)})

\* C3: with at least 4 readings and target min < max, the three range counts
\* of the overview count each reading in exactly one class and add up to
\* total_readings = number of readings; the percentages count / total * 100
\* add up to 100.
C3_RangeCountsPartition ==
    (FullExit /\ user.target_range_min < user.target_range_max) =>
        LET o == analysis.overview
        IN  /\ o.total_readings = Len(logs)
            /\ o.readings_in_range + o.readings_below_range + o.readings_above_range
                   = o.total_readings
            /\ o.readings_in_range = NumberIn("in")
            /\ o.readings_below_range = NumberIn("below")
            /\ o.readings_above_range = NumberIn("above")
            /\ \A i \in 1..Len(logs) : Cardinality(ClassesOf(logs[i].glucose_value)) = 1
            /\ o.readings_in_range * 100 + o.readings_below_range * 100
                   + o.readings_above_range * 100 = 100 * o.total_readings
            /\ o.time_in_range = Rat(RoundHalfEven(o.readings_in_range * 1000, o.total_readings), 10)

\* readings in all three classes, one of them on the lower bound of the range
C3_Witness ==
    /\ FullExit
    /\ analysis.overview.readings_in_range > 0
    /\ analysis.overview.readings_below_range > 0
    /\ analysis.overview.readings_above_range > 0
    /\ \E i \in 1..Len(logs) : logs[i].glucose_value = user.target_range_min


Range(f) == {f[x] : x \in DOMAIN f}

\* every float of a returned result
FloatsOf(result) ==
    LET o == result.overview
        full == "anomaly_detection" \in DOMAIN result
        t == result.trends
        p == result.patterns
        a == result.anomaly_detection
        m == result.meal_correlation
    IN  {o.average_glucose, o.time_in_range}
        \cup (IF ~full THEN {}
              ELSE {o.min_glucose, o.max_glucose, o.glucose_variability, o.coefficient_variation,
                    t.slope, t.r_squared, t.recent_change,
                    t.predictions.next_reading_prediction, t.predictions.confidence_score,
                    p.weekend_vs_weekday.weekend_avg, p.weekend_vs_weekday.weekday_avg,
                    result.time_analysis.morning_average, result.time_analysis.evening_average,
                    a.anomaly_percentage, a.anomaly_threshold_high, a.anomaly_threshold_low}
                   \cup Range(t.predictions.short_term_predictions)
                   \cup Range(p.hourly_averages) \cup Range(p.daily_averages)
                   \cup (IF "dominant_pattern" \in DOMAIN p
                         THEN {p.ml_clusters[c].avg_glucose : c \in DOMAIN p.ml_clusters}
                              \cup {p.ml_clusters[c].weekend_frequency : c \in DOMAIN p.ml_clusters}
                         ELSE {})
                   \cup (IF "meal_averages" \in DOMAIN m THEN Range(m.meal_averages) ELSE {})
                   \cup (IF "ml_anomaly_count" \in DOMAIN a.ml_anomaly_detection
                         THEN {a.ml_anomaly_detection.ml_anomaly_percentage}
                              \cup Range(a.ml_anomaly_detection.anomalous_glucose_values)
                         ELSE {}))

NoWeekendReading == \A i \in 1..Len(logs) : (logs[i].reading_time \div 24) % 7 < 5

\* C4: every call returns a result, and no number in the result is NaN or
\* infinite: a value that is undefined (the mean of no weekend reading, the
\* statistics of an empty cluster) is reported as 0.
C4_NoNaNInResult ==
    Returned =>
        /\ FullExit \/ InsufficientExit \/ ErrorExit
        /\ \A f \in FloatsOf(analysis) : f.kind \in {"num", "none"} /\ f.d > 0
        /\ (FullExit /\ NoWeekendReading) =>
               RatEq(analysis.patterns.weekend_vs_weekday.weekend_avg, 0, 1)
        /\ (FullExit /\ "dominant_pattern" \in DOMAIN analysis.patterns) =>
               \A c \in DOMAIN analysis.patterns.ml_clusters :
                   analysis.patterns.ml_clusters[c].pattern_frequency = 0 =>
                       /\ RatEq(analysis.patterns.ml_clusters[c].avg_glucose, 0, 1)
                       /\ RatEq(analysis.patterns.ml_clusters[c].weekend_frequency, 0, 1)

\* ten equal readings at one hour of one weekday: no weekend mean, and a
\* cluster without members
C4_Witness ==
    /\ FullExit
    /\ Len(logs) >= 10
    /\ \A i \in 1..Len(logs) : logs[i] = logs[1]
    /\ NoWeekendReading
    /\ "dominant_pattern" \in DOMAIN analysis.patterns
    /\ \E c \in DOMAIN analysis.patterns.ml_clusters :
           analysis.patterns.ml_clusters[c].pattern_frequency = 0

\* the chronological arrangements of the glucose values of the input
ChronologicalValues ==
    {Column(rows, "glucose_value") : rows \in _logs_to_dataframe(logs)}

\* n^2 * covariance of (rank index, value) and n^2 * variance of rank index:
\* the least-squares slope is CovXY / VarX
CovXY(y) ==
    LET n == Len(y)
    IN  SeqSum([i \in 1..n |-> (n * (i - 1) - SumX(n)) * (n * y[i] - SeqSum(y))])
VarX(n) == SeqSum([i \in 1..n |-> (n * (i - 1) - SumX(n)) * (n * (i - 1) - SumX(n))])

\* C5: with at least 4 readings the trend agrees with the least-squares slope
\* of value against chronological rank: stable iff |slope| < 0.5, increasing
\* iff slope >= 0.5, decreasing iff slope <= -0.5; a constant series is stable.
C5_TrendAgreesWithSlope ==
    FullExit =>
        /\ \E y \in ChronologicalValues :
               /\ analysis.trends.trend = "stable" <=> 2 * Abs(CovXY(y)) < VarX(Len(y))
               /\ analysis.trends.trend = "increasing" <=> 2 * CovXY(y) >= VarX(Len(y))
               /\ analysis.trends.trend = "decreasing" <=> 2 * CovXY(y) <= 0 - VarX(Len(y))
        /\ AllEqual(GlucoseValues) => analysis.trends.trend = "stable"

\* a series whose slope is exactly 0.5
C5_Witness ==
    /\ FullExit
    /\ analysis.trends.trend = "increasing"
    /\ RatEq(analysis.trends.slope, 1, 2)
    /\ \E y \in ChronologicalValues : 2 * CovXY(y) = VarX(Len(y))

Scenario1 ==
    /\ logs = Scenario1Logs
    /\ user.target_range_min = 80
    /\ user.target_range_max = 180
    /\ FullExit

\* C6 as stated: 90, 95, 100, 105 with target 80-180 gives mean 97.5, min
\* 90, max 105, time in range 100% and trend stable.
C6_Scenario1Stable ==
    Scenario1 =>
        /\ RatEq(analysis.overview.average_glucose, 975, 10)
        /\ RatEq(analysis.overview.min_glucose, 90, 1)
        /\ RatEq(analysis.overview.max_glucose, 105, 1)
        /\ RatEq(analysis.overview.time_in_range, 100, 1)
        /\ analysis.trends.trend = "stable"

\* C6 amended: 90, 95, 100, 105 with target 80-180 gives mean 97.5, min 90,
\* max 105, time in range 100% and trend increasing (the slope is 5 per
\* reading).
C6_Scenario1Increasing ==
    Scenario1 =>
        /\ RatEq(analysis.overview.average_glucose, 975, 10)
        /\ RatEq(analysis.overview.min_glucose, 90, 1)
        /\ RatEq(analysis.overview.max_glucose, 105, 1)
        /\ RatEq(analysis.overview.time_in_range, 100, 1)
        /\ analysis.trends.trend = "increasing"
        /\ RatEq(analysis.trends.slope, 5, 1)

C6_Witness == Scenario1 /\ pc = "returned"

\* the reading v lies strictly more than two sample standard deviations from
\* the mean of the input: (v - S/n)^2 > 4 * V / (n (n - 1)), V = n Q - S^2
BeyondTwoSigma(v) ==
    LET n == Len(logs)
        S == SeqSum(GlucoseValues)
    IN  (n * v - S) * (n * v - S) * (n - 1) > 4 * n * VarNum(GlucoseValues)

OnTwoSigma(v) ==
    LET n == Len(logs)
        S == SeqSum(GlucoseValues)
    IN  (n * v - S) * (n * v - S) * (n - 1) = 4 * n * VarNum(GlucoseValues)

\* C7: with at least 4 readings, anomaly_count is the number of readings
\* strictly more than two standard deviations from the mean; a reading at
\* exactly two standard deviations, or nearer, is not counted.
C7_AnomalyCountTwoSigma ==
    FullExit =>
        analysis.anomaly_detection.anomaly_count
            = Cardinality({i \in 1..Len(logs) : BeyondTwoSigma(logs[i].glucose_value)})

\* a series with a reading exactly two standard deviations above the mean
C7_Witness ==
    /\ FullExit
    /\ VarNum(GlucoseValues) > 0
    /\ \E i \in 1..Len(logs) : OnTwoSigma(logs[i].glucose_value)
    /\ analysis.anomaly_detection.anomaly_count = 0

\* at least 10 readings, one of 400 mg/dL, the others in 80..120
SpikeSeries ==
    /\ Len(logs) >= 10
    /\ Cardinality({i \in 1..Len(logs) : logs[i].glucose_value = 400}) = 1
    /\ \A i \in 1..Len(logs) :
           logs[i].glucose_value = 400 \/ logs[i].glucose_value \in 80..120

\* C8 as stated: for such a series the statistical layer flags the 400
\* reading, severe_highs >= 1, and the risk assessment reports the
\* hyperglycemia axis at moderate or high.
C8_SpikeFlaggedOnAllLayers ==
    (FullExit /\ SpikeSeries) =>
        /\ analysis.anomaly_detection.anomaly_count >= 1
        /\ BeyondTwoSigma(400)
        /\ analysis.anomaly_detection.severe_highs >= 1
        /\ Get(analysis.risk_assessment, "hyperglycemia_risk", "None") \in {"moderate", "high"}

\* the coefficient of variation of the input exceeds t percent
CvAbove(t) ==
    LET n == Len(logs)
        S == SeqSum(GlucoseValues)
    IN  CmpFrac(VarNum(GlucoseValues) * n, (n - 1) * S * S, t * t, 10000) > 0

\* C9 as stated: with at least 4 readings the risk assessment reports a
\* level for each of the three axes, the variability level being high above
\* a coefficient of variation of 36%, moderate above 24%, else low.
C9_ThreeRiskAxes ==
    FullExit =>
        /\ Axes \subseteq DOMAIN analysis.risk_assessment
        /\ \A a \in Axes : analysis.risk_assessment[a] \in Levels
        /\ analysis.risk_assessment["variability_risk"]
               = IF CvAbove(36) THEN "high" ELSE IF CvAbove(24) THEN "moderate" ELSE "low"

\* C10: the overall risk score is 3 per axis at high, 1 per axis at moderate,
\* plus the points of the time in range (2 below 50%, 1 below 70%); the
\* overall level is high iff score >= 6, moderate iff 3 <= score < 6, low iff
\* score < 3.
C10_ScoreFromWeights ==
    (pc = "responded" /\ "risk_score" \in DOMAIN risk_response) =>
        LET risk_data == Get(analysis, "risk_assessment", <<>>)
            overview == Get(analysis, "overview", <<>>)
            NumberAt(level) == Cardinality({a \in Axes \cap DOMAIN risk_data : risk_data[a] = level})
            percent == IF "time_in_range_percent" \in DOMAIN overview
                       THEN overview.time_in_range_percent ELSE Rat(100, 1)
            points == IF percent.n < 50 * percent.d THEN 2
                      ELSE IF percent.n < 70 * percent.d THEN 1 ELSE 0
            score == risk_response.risk_score
            level == risk_response.overall_risk_level
        IN  /\ score = 3 * NumberAt("high") + NumberAt("moderate") + points
            /\ level = "high" <=> score >= 6
            /\ level = "moderate" <=> (3 <= score /\ score < 6)
            /\ level = "low" <=> score < 3

\* two axes at high, one at moderate and a time in range below 50%
C10_Witness ==
    /\ pc = "responded"
    /\ "risk_score" \in DOMAIN risk_response
    /\ risk_response.risk_score = 9
    /\ risk_response.overall_risk_level = "high"


\* the points that get_risk_assessment adds for the axes it finds
AxisScore(risk_data) ==
    3 * Cardinality({a \in Axes \cap DOMAIN risk_data : risk_data[a] = "high"})
    + Cardinality({a \in Axes \cap DOMAIN risk_data : risk_data[a] = "moderate"})

\* C11: for an analysis of at least 4 readings the overall risk score holds 2
\* extra points when the time in range of the overview of that analysis is
\* below 50%, 1 extra point when it is at least 50% and below 70%, else 0.
C11_TimeInRangeContribution ==
    (pc = "responded" /\ FullExit /\ "risk_score" \in DOMAIN risk_response) =>
        risk_response.risk_score - AxisScore(analysis.risk_assessment)
            = IF RatLt(analysis.overview.time_in_range, 50, 1) THEN 2
              ELSE IF RatLt(analysis.overview.time_in_range, 70, 1) THEN 1
              ELSE 0

LevelRank(level) == IF level = "high" THEN 2 ELSE IF level = "moderate" THEN 1 ELSE 0

\* result is the scored analysis with axis a raised to level l
RaisedAxis(result, a, l) ==
    [result EXCEPT !.risk_assessment = [result.risk_assessment EXCEPT ![a] = l]]

\* result is the scored analysis with the time in range set to p percent
WithTimeInRange(result, p) ==
    [result EXCEPT !.overview = [time_in_range_percent |-> Rat(p, 1)]]

NotBelow(other) ==
    /\ RiskScoring(other).risk_score >= risk_response.risk_score
    /\ LevelRank(RiskScoring(other).overall_risk_level)
           >= LevelRank(risk_response.overall_risk_level)

\* C12: the overall risk score is non-decreasing in each axis: raising one
\* axis (low -> moderate -> high) with the others fixed, or lowering the time
\* in range alone, never lowers the score nor the overall level.
C12_ScoreMonotone ==
    (pc = "responded" /\ "risk_score" \in DOMAIN risk_response
        /\ DOMAIN analysis = {"risk_assessment", "overview"}) =>
        /\ \A a \in DOMAIN analysis.risk_assessment : \A l \in Levels :
               LevelRank(l) >= LevelRank(analysis.risk_assessment[a])
                   => NotBelow(RaisedAxis(analysis, a, l))
        /\ "time_in_range_percent" \in DOMAIN analysis.overview =>
               \A p \in 0..100 :
                   p * analysis.overview.time_in_range_percent.d
                       <= analysis.overview.time_in_range_percent.n
                       => NotBelow(WithTimeInRange(analysis, p))

\* a scored input of level moderate that one step on one axis, and a lower
\* time in range, each lift to high
C12_Witness ==
    /\ pc = "responded"
    /\ "risk_score" \in DOMAIN risk_response
    /\ DOMAIN analysis = {"risk_assessment", "overview"}
    /\ risk_response.overall_risk_level = "moderate"
    /\ \E a \in DOMAIN analysis.risk_assessment :
           /\ analysis.risk_assessment[a] = "moderate"
           /\ RiskScoring(RaisedAxis(analysis, a, "high")).overall_risk_level = "high"
    /\ "time_in_range_percent" \in DOMAIN analysis.overview
    /\ RatEq(analysis.overview.time_in_range_percent, 70, 1)
    /\ RiskScoring(WithTimeInRange(analysis, 49)).overall_risk_level = "high"

\* C13: an exception that escapes a component of a full analysis is caught
\* and returned as the analysis-failed result (status error, trend error, no
\* recommendation); that result differs from the insufficient-data result,
\* which is returned only for fewer than 4 readings.
C13_ErrorExitDistinct ==
    /\ (Returned /\ \E i \in 1..Len(calls) : calls[i] = "_error_response") =>
           /\ Len(logs) >= 4
           /\ Get(analysis, "status", "None") = "error"
           /\ analysis.trends.trend = "error"
           /\ analysis.recommendations = <<>>
           /\ analysis # _insufficient_data_response
    /\ (Returned /\ Len(logs) >= 4) => (FullExit \/ ErrorExit) /\ ~InsufficientExit
    /\ InsufficientExit => Len(logs) < 4

\* a component late in a full analysis raised
C13_Witness ==
    /\ pc = "returned"
    /\ ErrorExit
    /\ Len(calls) >= 2
    /\ calls[Len(calls) - 1] = "_analyze_meal_correlation"
    /\ calls[Len(calls)] = "_error_response"


\* the library as it behaves when no call fails
Succeeding == [sklearn EXCEPT !.raises = {}]

AggregateKeys ==
    {"hourly_averages", "peak_hour", "lowest_hour", "daily_averages", "weekend_vs_weekday"}

StatisticalKeys ==
    {"anomaly_count", "anomaly_percentage", "severe_highs", "severe_lows",
     "anomaly_threshold_high", "anomaly_threshold_low"}

Restrict(dict, keys) == [k \in keys \cap DOMAIN dict |-> dict[k]]

\* the sections of result that do not come from the library are those of an
\* analysis of rows in which clustering and outlier detection succeed
SameOutsideML(result, rows) ==
    LET whole == fit(Unfitted, ClusterFeatures(rows))
        part  == fit(Unfitted, AnomalyFeatures(rows))
        p == _identify_patterns(rows, transform(whole, ClusterFeatures(rows)), Succeeding)
        a == _detect_anomalies(rows, transform(part, AnomalyFeatures(rows)), Succeeding)
    IN  /\ "dominant_pattern" \in DOMAIN p
        /\ "ml_anomaly_count" \in DOMAIN a.ml_anomaly_detection
        /\ result.overview = _calculate_overview_stats(rows, user)
        /\ \E df_sorted \in sort_values(rows) :
               result.trends = _analyze_trends(rows, df_sorted, sklearn.score_const)
        /\ Restrict(result.patterns, AggregateKeys) = Restrict(p, AggregateKeys)
        /\ AggregateKeys \subseteq DOMAIN result.patterns
        /\ Restrict(result.anomaly_detection, StatisticalKeys) = Restrict(a, StatisticalKeys)
        /\ StatisticalKeys \subseteq DOMAIN result.anomaly_detection
        /\ result.risk_assessment = _assess_risk_factors(rows)
        /\ result.recommendations = _generate_recommendations(rows)

\* C14: when the scaling, the clustering or the outlier detection fails in
\* an analysis of at least 10 readings, only that sub-section becomes an
\* unavailable marker ({error: ...}); the full result is returned and its
\* overview, trends, pattern aggregates, statistical anomaly counts, risk
\* assessment and recommendations are those of a successful analysis.
C14_MLFailureContained ==
    /\ (pc \in {"recommendations", "risk", "time", "meal", "anomaly", "assemble"}
            /\ Len(df) >= 10 /\ sklearn.raises \cap {"scaler", "kmeans"} # {}) =>
           /\ DOMAIN patterns = AggregateKeys \cup {"ml_clusters"}
           /\ DOMAIN patterns.ml_clusters = {"error"}
    /\ (FullExit /\ Len(logs) >= 10 /\ sklearn.raises # {}) =>
           /\ sklearn.raises \cap {"scaler", "kmeans"} # {} =>
                  DOMAIN analysis.patterns.ml_clusters = {"error"}
           /\ sklearn.raises \cap {"scaler", "kmeans"} = {} =>
                  "dominant_pattern" \in DOMAIN analysis.patterns
           /\ sklearn.raises \cap {"scaler", "iforest"} # {} =>
                  DOMAIN analysis.anomaly_detection.ml_anomaly_detection = {"error"}
           /\ sklearn.raises \cap {"scaler", "iforest"} = {} =>
                  "ml_anomaly_count" \in DOMAIN analysis.anomaly_detection.ml_anomaly_detection
           /\ \E rows \in _logs_to_dataframe(logs) : SameOutsideML(analysis, rows)

\* the scaler failed: both sub-sections are markers in a full result
C14_Witness ==
    /\ pc = "returned"
    /\ FullExit
    /\ Len(logs) >= 10
    /\ sklearn.raises = {"scaler"}
    /\ "error" \in DOMAIN analysis.patterns.ml_clusters
    /\ "error" \in DOMAIN analysis.anomaly_detection.ml_anomaly_detection
    /\ analysis.anomaly_detection.anomaly_count >= 1


\* C15: two invocations running concurrently on the shared instance, each
\* on its own series of at least 10 readings, each return exactly the result
\* they return when run alone, under every interleaving of their steps.
C15_ConcurrentCallsIndependent ==
    tasks # Nothing =>
        \A t \in Tasks :
            tasks[t].pc = "returned" =>
                tasks[t].result = AnalysisAlone(tasks[t].df, user, sklearn)


\* C16: on one instance, a call returns the same result as every earlier
\* call with the same readings and target range, whatever was analysed in
\* between; before each use the scaler is fitted on the batch of the call.
C16_HistoryIndependent ==
    /\ (pc = "returned" /\ analysis # Nothing) =>
           \A i \in 1..Len(history) :
               (history[i].logs = logs /\ history[i].user = user)
                   => history[i].analysis = analysis
    /\ (pc = "recommendations" /\ Len(df) >= 10 /\ "scaler" \notin sklearn.raises) =>
           scaler = [n_features_in_ |-> 5, fitted_on |-> ClusterFeatures(df)]
    /\ (pc = "assemble" /\ Len(df) >= 10 /\ "scaler" \notin sklearn.raises) =>
           scaler = [n_features_in_ |-> 4, fitted_on |-> AnomalyFeatures(df)]

\* the third call repeats the first, the second analysed other readings
C16_Witness ==
    /\ pc = "returned"
    /\ Len(history) = 2
    /\ history[1].logs = logs
    /\ history[1].user = user
    /\ history[2].logs # logs
    /\ "dominant_pattern" \in DOMAIN analysis.patterns
    /\ "ml_anomaly_count" \in DOMAIN analysis.anomaly_detection.ml_anomaly_detection


\* number of rows of the table that are the normalized reading log
RowsOf(rows, log) == Cardinality({j \in 1..Len(rows) : rows[j] = Row(log)})

\* number of readings of the list equal to log
ReadingsLike(ls, log) == Cardinality({j \in 1..Len(ls) : ls[j] = log})

NormalizedTable(rows, ls) ==
    /\ Len(rows) = Len(ls)
    /\ \A i \in 1..Len(ls) : RowsOf(rows, ls[i]) = ReadingsLike(ls, ls[i])
    /\ \A i \in 1..(Len(rows) - 1) : rows[i].reading_time <= rows[i + 1].reading_time
    /\ \A i \in 1..Len(rows) :
           /\ rows[i].hour \in 0..23
           /\ rows[i].hour = rows[i].reading_time % 24
           /\ rows[i].day_of_week \in 0..6
           /\ rows[i].is_weekend <=> rows[i].day_of_week >= 5

\* C17: for a non-empty list of readings the normalizer returns one row per
\* reading (equal readings are all kept), in non-decreasing order of
\* reading_time, with hour in 0..23, day_of_week in 0..6 and is_weekend true
\* exactly when day_of_week >= 5.
C17_NormalizedTable ==
    /\ (pc = "entry" /\ Len(logs) >= 1) =>
           \A rows \in _logs_to_dataframe(logs) : NormalizedTable(rows, logs)
    /\ pc = "overview" => NormalizedTable(df, logs)

\* normalized: a list given out of order that holds the same reading twice
C17_Witness ==
    /\ pc = "overview"
    /\ \E i, j \in 1..Len(logs) : i < j /\ logs[i] = logs[j]
    /\ \E i \in 1..(Len(logs) - 1) : logs[i].reading_time > logs[i + 1].reading_time
    /\ \E i \in 1..Len(df) : df[i].is_weekend


PriorityRank(priority) ==
    IF priority = "high" THEN 0 ELSE IF priority = "medium" THEN 1 ELSE 2

HighMediumNormal(recs) ==
    /\ \A i \in 1..Len(recs) : recs[i].priority \in {"high", "medium", "normal"}
    /\ \A i, j \in 1..Len(recs) :
           i < j => PriorityRank(recs[i].priority) <= PriorityRank(recs[j].priority)

\* number of positions of recs that hold rec
Copies(recs, rec) == Cardinality({i \in 1..Len(recs) : recs[i] = rec})

\* C18: the recommendations delivered to the caller hold every high item
\* before every medium item and every medium item before every normal item,
\* in the analysis result of the engine and in the merged list of the
\* recommendations endpoint (which holds the engine's items and the general
\* ones, each once).
C18_RecommendationsByPriority ==
    /\ Returned => HighMediumNormal(analysis.recommendations)
    /\ (pc = "responded" /\ recommendations_response # Nothing) =>
           LET merged == analysis.recommendations
                             \o general_recommendations(recommendations_response.profile)
               out == recommendations_response.recommendations
           IN  /\ HighMediumNormal(out)
               /\ Len(out) = Len(merged)
               /\ \A i \in 1..Len(merged) : Copies(out, merged[i]) = Copies(merged, merged[i])

\* a merged list with high, medium and normal items
C18_Witness ==
    /\ pc = "responded"
    /\ recommendations_response # Nothing
    /\ \A p \in {"high", "medium", "normal"} :
           \E i \in 1..Len(recommendations_response.recommendations) :
               recommendations_response.recommendations[i].priority = p


\* the actions of the recommendations about the average and the variability
AverageAndVariabilityActions ==
    {"improve_consistency", "consult_doctor", "monitor_closely", "continue_monitoring"}

HasAction(recs, action) == \E i \in 1..Len(recs) : recs[i].action = action

\* the average of the readings exceeds t
AverageAbove(t) == SeqSum(GlucoseValues) > t * Len(logs)
AverageBelow(t) == SeqSum(GlucoseValues) < t * Len(logs)

\* C19: the recommendation generator has one rule per signal (average too
\* high, average too low, high variability, high anomaly risk, low time in
\* range), each adding its recommendation whenever its signal is present; an
\* input with a low time in range, or with high anomaly counts, yields a
\* recommendation for that signal.
C19_RulePerSignal ==
    FullExit =>
        /\ AverageAbove(180) => HasAction(analysis.recommendations, "consult_doctor")
        /\ AverageBelow(70) => HasAction(analysis.recommendations, "monitor_closely")
        /\ CvAbove(30) => HasAction(analysis.recommendations, "improve_consistency")
        /\ (\/ RatLt(analysis.overview.time_in_range, 50, 1)
            \/ analysis.anomaly_detection.severe_highs + analysis.anomaly_detection.severe_lows
                   >= Len(logs) \div 2) =>
               \E i \in 1..Len(analysis.recommendations) :
                   analysis.recommendations[i].action \notin AverageAndVariabilityActions

\* what the generator does: the three rules on the average and the
\* variability, and nothing on the time in range or the anomalies
RulesOfTheGenerator ==
    FullExit =>
        /\ AverageAbove(180) <=> HasAction(analysis.recommendations, "consult_doctor")
        /\ AverageBelow(70) <=> HasAction(analysis.recommendations, "monitor_closely")
        /\ CvAbove(30) <=> HasAction(analysis.recommendations, "improve_consistency")
        /\ \A i \in 1..Len(analysis.recommendations) :
               analysis.recommendations[i].action \in AverageAndVariabilityActions


\* C20: analyze_glucose_patterns leaves its arguments as they were, on every
\* exit: no step of a call changes the list of readings (length, order, the
\* fields of each reading) or the target range of the user.
C20_InputsUnchanged ==
    [][pc' # "entry" => (logs' = logs /\ user' = user)]_vars

\* a full analysis of readings given out of chronological order has returned
C20_Witness ==
    /\ pc = "returned"
    /\ FullExit
    /\ \E i \in 1..(Len(logs) - 1) : logs[i].reading_time > logs[i + 1].reading_time
    /\ user.target_range_min = 100


\* the readings of the call as a number
NumReadings == Len(logs)

\* C21: clustering and multivariate outlier detection run exactly from 10
\* readings on: with 4 to 9 readings the patterns hold the aggregates only
\* and ml_anomaly_detection is {insufficient_data: true}; from 10 readings on
\* the patterns report exactly k = min(3, n div 4) clusters (2 for 10 and 11
\* readings, 3 from 12 on) and the outlier detection reports its counts.
C21_MLFromTenReadings ==
    FullExit =>
        LET p  == analysis.patterns
            ml == analysis.anomaly_detection.ml_anomaly_detection
        IN  IF NumReadings <= 9
            THEN /\ DOMAIN p = AggregateKeys
                 /\ ml = [insufficient_data |-> TRUE]
            ELSE /\ DOMAIN p = AggregateKeys \cup {"ml_clusters", "dominant_pattern"}
                 /\ Cardinality(DOMAIN p.ml_clusters) = (IF NumReadings <= 11 THEN 2 ELSE 3)
                 /\ 4 * Cardinality(DOMAIN p.ml_clusters) <= NumReadings
                 /\ DOMAIN p.ml_clusters = 0..(Cardinality(DOMAIN p.ml_clusters) - 1)
                 /\ "ml_anomaly_count" \in DOMAIN ml
                 /\ "insufficient_data" \notin DOMAIN ml

\* twelve readings: three clusters
C21_Witness ==
    /\ FullExit
    /\ NumReadings = 12
    /\ DOMAIN analysis.patterns.ml_clusters = {0, 1, 2}

\* nine readings: no clustering
C21_WitnessNine ==
    /\ FullExit
    /\ NumReadings = 9
    /\ "ml_clusters" \notin DOMAIN analysis.patterns


\* the member counts of the reported clusters, by cluster id
MemberCounts(ml_clusters) ==
    [i \in 1..Cardinality(DOMAIN ml_clusters) |-> ml_clusters[i - 1].pattern_frequency]

\* C22: when clustering succeeded, dominant_pattern is a reported cluster
\* with at least as many members as every reported cluster, and the member
\* counts of the reported clusters add up to the number of readings.
C22_DominantPatternLargest ==
    (FullExit /\ "dominant_pattern" \in DOMAIN analysis.patterns) =>
        LET ml_clusters == analysis.patterns.ml_clusters
            dominant    == analysis.patterns.dominant_pattern
        IN  /\ dominant \in DOMAIN ml_clusters
            /\ \A c \in DOMAIN ml_clusters :
                   ml_clusters[dominant].pattern_frequency >= ml_clusters[c].pattern_frequency
            /\ SeqSum(MemberCounts(ml_clusters)) = NumReadings

\* three clusters of different sizes, the last one the largest
C22_Witness ==
    /\ FullExit
    /\ "dominant_pattern" \in DOMAIN analysis.patterns
    /\ analysis.patterns.dominant_pattern = 2
    /\ \A c \in {0, 1} :
           /\ analysis.patterns.ml_clusters[c].pattern_frequency >= 1
           /\ analysis.patterns.ml_clusters[c].pattern_frequency
                  < analysis.patterns.ml_clusters[2].pattern_frequency


\* n^2 * variance of the values
VarY(y) ==
    LET n == Len(y)
    IN  SeqSum([i \in 1..n |-> (n * y[i] - SeqSum(y)) * (n * y[i] - SeqSum(y))])

\* the sign of R^2 - a/b for the least-squares line through the values y in
\* chronological order, R^2 = CovXY^2 / (VarX * VarY); for a series of equal
\* values R^2 is what the library's score returns for it
R2Cmp(y, a, b) ==
    IF VarY(y) = 0 THEN CmpFrac(sklearn.score_const, 1, a, b)
    ELSE IF CovXY(y) = 0 THEN 0 - 1
    ELSE CmpFrac(Abs(CovXY(y)), VarY(y), a * VarX(Len(y)), b * Abs(CovXY(y)))

\* equal steps of at least one unit from reading to reading
LinearRise(y) ==
    /\ y[2] - y[1] >= 1
    /\ \A i \in 1..(Len(y) - 1) : y[i + 1] - y[i] = y[2] - y[1]

\* 100 to 300 over 10 evenly spaced points, in ninths of a mg/dL
Scenario2Ninths == [i \in 1..10 |-> 900 + 200 * (i - 1)]

\* C23: with at least 4 readings trend_strength is strong iff R^2 > 0.7,
\* moderate iff 0.4 < R^2 <= 0.7, weak iff R^2 <= 0.4; prediction_reliability
\* is high, moderate, low in step with it; an exactly linear rising series
\* gives increasing, R^2 = 1, strong, and so does the series 100 to 300 over
\* 10 points (slope 200/9).
C23_StrengthFromRSquared ==
    /\ FullExit =>
           \E y \in ChronologicalValues :
               LET strength    == analysis.trends.trend_strength
                   reliability == analysis.trends.predictions.prediction_reliability
               IN  /\ strength = "strong" <=> R2Cmp(y, 7, 10) > 0
                   /\ strength = "moderate" <=> (R2Cmp(y, 4, 10) > 0 /\ R2Cmp(y, 7, 10) <= 0)
                   /\ strength = "weak" <=> R2Cmp(y, 4, 10) <= 0
                   /\ reliability = "high" <=> strength = "strong"
                   /\ reliability = "moderate" <=> strength = "moderate"
                   /\ reliability = "low" <=> strength = "weak"
                   /\ LinearRise(y) =>
                          /\ analysis.trends.trend = "increasing"
                          /\ RatEq(analysis.trends.r_squared, 1, 1)
                          /\ strength = "strong"
    /\ RatEq(coef_(Scenario2Ninths), 200, 1)
    /\ TrendLabel(Rat(200, 9)) = "increasing"
    /\ ScoreCmp(Scenario2Ninths, 1, 1, 1) = 0
    /\ ScoreLabel(Scenario2Ninths, 1, "strong", "moderate", "weak") = "strong"

\* ten readings rising by 22 mg/dL a day
C23_Witness ==
    /\ FullExit
    /\ NumReadings = 10
    /\ \E y \in ChronologicalValues : LinearRise(y) /\ y[2] - y[1] = 22
    /\ analysis.trends.trend_strength = "strong"
    /\ analysis.trends.predictions.prediction_reliability = "high"

\* a series of moderate strength
C23_WitnessModerate ==
    /\ FullExit
    /\ analysis.trends.trend_strength = "moderate"
    /\ analysis.trends.predictions.prediction_reliability = "moderate"

\* a series of weak strength that is not constant
C23_WitnessWeak ==
    /\ FullExit
    /\ analysis.trends.trend_strength = "weak"
    /\ ~AllEqual(Column(logs, "glucose_value"))


\* sum of the values at the positions after the first k
SumAfter(y, k) == SeqSum([i \in 1..Len(y) |-> IF i > k THEN y[i] ELSE 0])

\* C24: recent_change is 0 below 8 readings; from 8 readings on it is the
\* mean of the 7 latest readings minus the mean of the n - 7 earlier ones
\* (every reading is in exactly one of the two groups: the sum of the earlier
\* ones is the total less the sum of the latest 7), to one decimal.
C24_RecentChange ==
    FullExit =>
        \E y \in ChronologicalValues :
            LET n       == Len(y)
                latest  == SumAfter(y, n - 7)
                earlier == SeqSum(y) - latest
            IN  IF n < 8
                THEN RatEq(analysis.trends.recent_change, 0, 1)
                ELSE analysis.trends.recent_change
                         = Round(Rat(latest * (n - 7) - 7 * earlier, 7 * (n - 7)), 1)

\* eight readings: the first against the other seven
C24_Witness ==
    /\ FullExit
    /\ NumReadings = 8
    /\ ~RatEq(analysis.trends.recent_change, 0, 1)

\* seven readings that differ: no recent change
C24_WitnessSeven ==
    /\ FullExit
    /\ NumReadings = 7
    /\ ~AllEqual(Column(logs, "glucose_value"))
    /\ RatEq(analysis.trends.recent_change, 0, 1)


\* number of readings of the call above (below) a value
ReadingsAbove(t) == Cardinality({i \in 1..Len(logs) : logs[i].glucose_value > t})
ReadingsBelow(t) == Cardinality({i \in 1..Len(logs) : logs[i].glucose_value < t})

\* C25: with at least 4 readings severe_highs is the number of readings
\* above 300 and severe_lows the number of readings below 50, whatever the
\* mean and the standard deviation: also readings that the two-sigma test
\* does not count.
C25_SevereReadingsAbsolute ==
    FullExit =>
        /\ analysis.anomaly_detection.severe_highs = ReadingsAbove(300)
        /\ analysis.anomaly_detection.severe_lows = ReadingsBelow(50)

\* readings of 301 and 49 beside readings of 300 and 50, none of them beyond
\* two sigma
C25_Witness ==
    /\ FullExit
    /\ \E i, j \in 1..Len(logs) : logs[i].glucose_value = 300 /\ logs[j].glucose_value = 50
    /\ analysis.anomaly_detection.severe_highs >= 1
    /\ analysis.anomaly_detection.severe_lows >= 1
    /\ analysis.anomaly_detection.anomaly_count = 0


\* the position of a component in the calls of the analysis (0: not called)
CallPosition(name) ==
    IF \E i \in 1..Len(calls) : calls[i] = name
    THEN CHOOSE i \in 1..Len(calls) : calls[i] = name
    ELSE 0

\* C26: in a full analysis the normalizer runs first, the risk assessor runs
\* after the overview aggregator and after the anomaly detector, and the
\* recommendation generator runs last.
C26_DependencyOrder ==
    FullExit =>
        /\ CallPosition("_logs_to_dataframe") = 1
        /\ CallPosition("_assess_risk_factors") > CallPosition("_calculate_overview_stats")
        /\ CallPosition("_assess_risk_factors") > CallPosition("_detect_anomalies")
        /\ CallPosition("_generate_recommendations") = Len(calls)

\* the order of the calls in every full analysis
CallOrderOfTheCode ==
    FullExit =>
        calls = <<"_logs_to_dataframe", "_calculate_overview_stats", "_analyze_trends",
                  "_identify_patterns", "_generate_recommendations", "_assess_risk_factors",
                  "_analyze_time_patterns", "_analyze_meal_correlation", "_detect_anomalies">>


\* C27: an input of exactly 4 or exactly 5 readings has anomaly_count 0
\* whatever the values are, and so has an input of equal readings of any
\* length.
C27_NoAnomalyUpToFiveReadings ==
    (FullExit /\ (NumReadings \in {4, 5} \/ AllEqual(Column(logs, "glucose_value")))) =>
        /\ analysis.anomaly_detection.anomaly_count = 0
        /\ RatEq(analysis.anomaly_detection.anomaly_percentage, 0, 1)

\* five readings, one of them far from the four others
C27_Witness ==
    /\ FullExit
    /\ NumReadings = 5
    /\ ReadingsAbove(300) = 1
    /\ Cardinality({i \in 1..Len(logs) : logs[i].glucose_value = 100}) = 4
    /\ analysis.anomaly_detection.anomaly_count = 0

\* the same far reading among five others is counted
C27_WitnessSix ==
    /\ FullExit
    /\ NumReadings = 6
    /\ ReadingsAbove(300) = 1
    /\ Cardinality({i \in 1..Len(logs) : logs[i].glucose_value = 100}) = 5
    /\ analysis.anomaly_detection.anomaly_count = 1

\* ten equal readings
C27_WitnessEqual ==
    /\ FullExit
    /\ NumReadings >= 10
    /\ AllEqual(Column(logs, "glucose_value"))
    /\ analysis.anomaly_detection.anomaly_count = 0


\* the sum of the glucose values of a list of readings
TotalGlucose(ls) == SeqSum(Column(ls, "glucose_value"))

\* the level that belongs to an average of total / n
LevelOfAverage(total, n) ==
    IF total > 200 * n THEN "high" ELSE IF total > 150 * n THEN "moderate" ELSE "low"

\* C28: the level of the engine's risk assessment follows from the average
\* alone: high iff average > 200, moderate iff 150 < average <= 200, low iff
\* average <= 150; readings above 250 and below 70 add one entry each to the
\* factors, after the entry of the average, and leave the level alone.
C28_LevelFromAverageAlone ==
    FullExit =>
        LET risk == analysis.risk_assessment
        IN  /\ risk.level = LevelOfAverage(TotalGlucose(logs), NumReadings)
            /\ Len(risk.factors)
                   = (IF risk.level = "low" THEN 0 ELSE 1)
                     + (IF ReadingsAbove(250) > 0 THEN 1 ELSE 0)
                     + (IF ReadingsBelow(70) > 0 THEN 1 ELSE 0)
            /\ \A i \in 1..Len(risk.factors) :
                   risk.factors[i].count \in {0, ReadingsAbove(250), ReadingsBelow(70)}

\* two episodes above 250 and three below 70 at an average of 140: low, as
\* for another input of the same average with one episode above 250 and none
\* below 70
C28_Witness ==
    /\ FullExit
    /\ analysis.risk_assessment.level = "low"
    /\ ReadingsAbove(250) = 2
    /\ ReadingsBelow(70) = 3
    /\ TotalGlucose(logs) = 140 * NumReadings
    /\ \E other \in SpikeLogs :
           /\ TotalGlucose(other) = 140 * Len(other)
           /\ Cardinality({i \in 1..Len(other) : other[i].glucose_value < 70}) = 0
           /\ \A rows \in _logs_to_dataframe(other) :
                  _assess_risk_factors(rows).level = analysis.risk_assessment.level

\* an average of exactly 150 is low
C28_WitnessBoundary ==
    /\ FullExit
    /\ TotalGlucose(logs) = 150 * NumReadings
    /\ analysis.risk_assessment.level = "low"


AverageTitles == {"Elevated Average Glucose", "Low Average Glucose", "Good Glucose Control"}

\* the title that belongs to the average of the readings
TitleOfAverage ==
    IF AverageAbove(180) THEN "Elevated Average Glucose"
    ELSE IF AverageBelow(70) THEN "Low Average Glucose"
    ELSE "Good Glucose Control"

\* C29: with at least 4 readings the engine's recommendations are 1 or 2
\* items: one item on the average ('Elevated Average Glucose' above 180,
\* 'Low Average Glucose' below 70, 'Good Glucose Control' otherwise), with
\* 'High Glucose Variability' before it iff the coefficient of variation is
\* above 30; the list follows from the readings alone, not from the target
\* range.
C29_OneOrTwoRecommendations ==
    FullExit =>
        LET recs == analysis.recommendations
        IN  /\ Len(recs) \in {1, 2}
            /\ Cardinality({i \in 1..Len(recs) : recs[i].title \in AverageTitles}) = 1
            /\ recs[Len(recs)].title = TitleOfAverage
            /\ Len(recs) = 2 <=> CvAbove(30)
            /\ Len(recs) = 2 => recs[1].title = "High Glucose Variability"
            /\ \A rows \in _logs_to_dataframe(logs) : _generate_recommendations(rows) = recs

\* readings that are all outside the target range 100-300 and average 175:
\* the variability item, then 'Good Glucose Control'
C29_Witness ==
    /\ FullExit
    /\ user.target_range_min = 100
    /\ RatEq(analysis.overview.time_in_range, 0, 1)
    /\ Len(analysis.recommendations) = 2
    /\ analysis.recommendations[2].title = "Good Glucose Control"

\* a single item, on a low average
C29_WitnessOne ==
    /\ FullExit
    /\ Len(analysis.recommendations) = 1
    /\ analysis.recommendations[1].title = "Low Average Glucose"


\* the same readings in another order (reading times are pairwise distinct)
SameReadings(a, b) ==
    /\ Len(a) = Len(b)
    /\ {a[i] : i \in 1..Len(a)} = {b[i] : i \in 1..Len(b)}

DistinctTimes(ls) ==
    \A i, j \in 1..Len(ls) : ls[i].reading_time = ls[j].reading_time => i = j

Chronological(ls) ==
    \A i \in 1..(Len(ls) - 1) : ls[i].reading_time < ls[i + 1].reading_time

\* C30: for at least 4 readings with pairwise distinct reading times the
\* analysis is the same for every order in which the list holds them:
\* overview, trends, patterns, anomaly detection, risk assessment,
\* recommendations and the other sections are those of every reordered list.
C30_OrderOfTheListIrrelevant ==
    (FullExit /\ DistinctTimes(logs)) =>
        \A other \in SeriesLogs :
            SameReadings(other, logs) =>
                \A rows \in _logs_to_dataframe(other) :
                    AnalysisAlone(rows, user, sklearn) = analysis

\* twelve readings handed over latest first, as the endpoints do
C30_Witness ==
    /\ FullExit
    /\ NumReadings = 12
    /\ \A i \in 1..(Len(logs) - 1) : logs[i].reading_time > logs[i + 1].reading_time
    /\ ~RatEq(analysis.trends.slope, 0, 1)
    /\ "dominant_pattern" \in DOMAIN analysis.patterns
    /\ \E other \in SeriesLogs : SameReadings(other, logs) /\ Chronological(other)

=============================================================================
